---- MODULE Spec2Model ----
(***************************************************************************)
(* Verification model of the story generators of iD01t/Bedtime.            *)
(*                                                                         *)
(* Text is modelled at the level the code works on it: a string is a       *)
(* sequence of one-character strings, so that lower(), split(), replace()  *)
(* and endswith() are computed character by character, and a token is the  *)
(* sequence of characters between two runs of whitespace.                  *)
(***************************************************************************)
EXTENDS Integers, Sequences, FiniteSets, TLC

(***************************************************************************)
(* Python string and list primitives used by the source                    *)
(***************************************************************************)
Max(a, b) == IF a >= b THEN a ELSE b

Min(a, b) == IF a <= b THEN a ELSE b

Range(f) == {f[i] : i \in DOMAIN f}

UPPER == <<"A","B","C","D","E","F","G","H","I","J","K","L","M",
           "N","O","P","Q","R","S","T","U","V","W","X","Y","Z">>

LOWER == <<"a","b","c","d","e","f","g","h","i","j","k","l","m",
           "n","o","p","q","r","s","t","u","v","w","x","y","z">>

\* str.lower() on one character
lower_char(c) ==
    IF \E i \in DOMAIN UPPER : UPPER[i] = c
    THEN LOWER[CHOOSE i \in DOMAIN UPPER : UPPER[i] = c]
    ELSE c

\* str.lower()
lower(s) == [i \in 1..Len(s) |-> lower_char(s[i])]

\* the characters str.split() with no argument treats as separators
IsSpace(c) == c \in {" ", "\t", "\n"}

RECURSIVE Flatten(_, _, _)
\* pieces[lo] \o ... \o pieces[hi]: what a left-to-right scan collects when
\* position i contributes pieces[i] (halving the range keeps evaluation shallow)
Flatten(pieces, lo, hi) ==
    IF lo > hi THEN <<>>
    ELSE IF lo = hi THEN pieces[lo]
    ELSE LET mid == (lo + hi) \div 2
         IN  Flatten(pieces, lo, mid) \o Flatten(pieces, mid + 1, hi)

\* str.split(): the maximal runs of non-whitespace characters, in order
split(s) ==
    LET IsStart(i) == ~IsSpace(s[i]) /\ (i = 1 \/ IsSpace(s[i - 1]))
        End(i)     == CHOOSE j \in i..Len(s) :
                         /\ j = Len(s) \/ IsSpace(s[j + 1])
                         /\ \A k \in i..j : ~IsSpace(s[k])
        Token(i)   == IF IsStart(i) THEN <<SubSeq(s, i, End(i))>> ELSE <<>>
    IN  Flatten([i \in 1..Len(s) |-> Token(i)], 1, Len(s))

\* seq[i:j] for a 0-based start i >= 0 and any integer j (a negative j counts
\* from the end, and both ends are clipped to the sequence)
pyslice(seq, i, j) ==
    LET len == Len(seq)
        lo  == Min(i, len)
        hi  == IF j < 0 THEN Max(0, j + len) ELSE Min(j, len)
    IN  IF hi <= lo THEN <<>> ELSE SubSeq(seq, lo + 1, hi)

RECURSIVE replace_from(_, _, _, _)
\* the scan of str.replace from position from on: copy up to the next
\* occurrence, emit new, resume after the occurrence
replace_from(s, from, old, new) ==
    LET last     == Len(s) - Len(old) + 1
        Match(i) == SubSeq(s, i, i + Len(old) - 1) = old
    IN  IF \E i \in from..last : Match(i)
        THEN LET m == CHOOSE i \in from..last :
                         Match(i) /\ \A k \in from..(i - 1) : ~Match(k)
             IN  SubSeq(s, from, m - 1) \o new \o replace_from(s, m + Len(old), old, new)
        ELSE SubSeq(s, from, Len(s))

\* str.replace(old, new) for a non-empty old: every non-overlapping occurrence,
\* scanning from the left
replace(s, old, new) == replace_from(s, 1, old, new)

\* str.endswith(suffix)
endswith(s, suffix) ==
    /\ Len(s) >= Len(suffix)
    /\ SubSeq(s, Len(s) - Len(suffix) + 1, Len(s)) = suffix

(***************************************************************************)
(* app.py: sentence variants and n-grams                                   *)
(***************************************************************************)
\* the character U+2014 (em dash), which the module's character set cannot spell
EM_DASH == "<U+2014>"

\* variants that drop the last character of every sentence
_sentence_variants_always_trim(base) ==
    << base,
       replace(base, <<"a","n","d">>, <<"&">>),
       replace(base, <<",">>, <<EM_DASH>>),
       pyslice(base, 0, -1) >>

_sentence_variants(base) ==
    LET variants == << base,
                       replace(base, <<"a","n","d">>, <<"&">>),
                       replace(base, <<",">>, <<EM_DASH>>) >>
    IN  IF endswith(base, <<".">>)
        THEN Append(variants, pyslice(base, 0, -1))
        ELSE variants

\* set(tuple(tokens[i : i + n]) for i in range(0, max(0, len(tokens) - n + 1)))
_n_grams(tokens, n) ==
    {pyslice(tokens, i, i + n) : i \in 0..(Max(0, Len(tokens) - n + 1) - 1)}

\* _n_grams(s.lower().split(), n)
sentence_grams(s, n) == _n_grams(split(lower(s)), n)

(***************************************************************************)
(* Uniqueness ratios                                                       *)
(*                                                                         *)
(* A ratio is the pair of integers the code divides, [num, den] with       *)
(* den > 0, and 1.0 is [1, 1].  Ratios are compared by cross               *)
(* multiplication; the quotients the code compares are of integers far     *)
(* below 2^53, for which the floating-point comparison agrees with it.     *)
(***************************************************************************)
Ratio(num, den) == [num |-> num, den |-> den]

\* a == b as numbers
ratio_eq(a, b) == a.num * b.den = b.num * a.den

\* a >= b as numbers
ratio_ge(a, b) == a.num * b.den >= b.num * a.den

\* app.py: _unique_ngram_ratio
_unique_ngram_ratio(tokens, n) ==
    LET total == Max(0, Len(tokens) - n + 1)
    IN  IF total <= 0 THEN Ratio(1, 1)
        ELSE Ratio(Cardinality({pyslice(tokens, i, i + n) : i \in 0..(total - 1)}), total)

\* the characters of the class [a-z']
IsWordChar(c) == c = "'" \/ \E i \in DOMAIN LOWER : LOWER[i] = c

\* re.findall(r"[a-z']+", text): the maximal runs of word characters, in order
findall_words(text) ==
    LET IsStart(i) == IsWordChar(text[i]) /\ (i = 1 \/ ~IsWordChar(text[i - 1]))
        End(i)     == CHOOSE j \in i..Len(text) :
                         /\ j = Len(text) \/ ~IsWordChar(text[j + 1])
                         /\ \A k \in i..j : IsWordChar(text[k])
        Word(i)    == IF IsStart(i) THEN <<SubSeq(text, i, End(i))>> ELSE <<>>
    IN  Flatten([i \in 1..Len(text) |-> Word(i)], 1, Len(text))

(***************************************************************************)
(* bedtime_story_maker.py: n-gram lists and the windowed uniqueness ratio  *)
(***************************************************************************)
\* bedtime_story_maker.py _n_grams:
\* [tuple(tokens[i:i+n]) for i in range(max(0, len(tokens)-n+1))]
_n_grams_list(tokens, n) ==
    [k \in 1..Max(0, Len(tokens) - n + 1) |-> pyslice(tokens, k - 1, k - 1 + n)]

\* the body of the chunk loop: a chunk without grams is skipped, another
\* adds len(grams) to total and len(set(grams)) to unique
chunk_counts(acc, grams) ==
    IF grams = <<>> THEN acc
    ELSE [unique |-> acc.unique + Cardinality(Range(grams)),
          total  |-> acc.total + Len(grams)]

RECURSIVE unique_ratio_loop(_, _, _, _, _)
\* for i in range(0, len(tokens), window), from position i on
unique_ratio_loop(tokens, n, window, i, acc) ==
    IF i >= Len(tokens) THEN acc
    ELSE unique_ratio_loop(tokens, n, window, i + window,
                           chunk_counts(acc, _n_grams_list(pyslice(tokens, i, i + window), n)))

\* return unique/total if total else 1.0
unique_ratio_result(acc) ==
    IF acc.total # 0 THEN Ratio(acc.unique, acc.total) ELSE Ratio(1, 1)

\* a ratio that takes a window <= 0 for a window of one token
_unique_ratio_unit_window(tokens, n, window) ==
    IF tokens = <<>> THEN Ratio(1, 1)
    ELSE unique_ratio_result(
             unique_ratio_loop(tokens, n, IF window <= 0 THEN 1 ELSE window, 0,
                               [unique |-> 0, total |-> 0]))

\* a ratio that counts the n-grams of the whole stream, whatever the window
_unique_ratio_unchunked(tokens, n, window) ==
    IF tokens = <<>> THEN Ratio(1, 1)
    ELSE unique_ratio_result(
             unique_ratio_loop(tokens, n, Len(tokens), 0, [unique |-> 0, total |-> 0]))

\* bedtime_story_maker.py _unique_ratio(tokens, n, window)
_unique_ratio(tokens, n, window) ==
    IF tokens = <<>> THEN Ratio(1, 1)
    ELSE unique_ratio_result(
             unique_ratio_loop(tokens, n, IF window <= 0 THEN Len(tokens) ELSE window, 0,
                               [unique |-> 0, total |-> 0]))

(***************************************************************************)
(* app.py: the repetition guards, one loop iteration at a time             *)
(*                                                                         *)
(* A guard's running state is st = [seen, curated]; an iteration result    *)
(* also reports which branch the iteration took and how many entries of    *)
(* _sentence_variants(s) it computed n-grams for before it stopped.        *)
(***************************************************************************)
\* the loop variables an iteration hands to the next one
loop_state(r) == [seen |-> r.seen, curated |-> r.curated]

\* a loop that keeps the last clear variant instead of breaking at the first
last_clear(vs, seen, n) ==
    IF \E k \in 1..Len(vs) : sentence_grams(vs[k], n) \cap seen = {}
    THEN CHOOSE k \in 1..Len(vs) :
            /\ sentence_grams(vs[k], n) \cap seen = {}
            /\ \A j \in (k + 1)..Len(vs) : sentence_grams(vs[j], n) \cap seen # {}
    ELSE 0

\* for v in _sentence_variants(s): ... if not (grams_v & seen): ... break
\* the 1-based position of the variant the loop breaks at, 0 if it runs to its end
first_clear(vs, seen, n) ==
    IF \E k \in 1..Len(vs) : sentence_grams(vs[k], n) \cap seen = {}
    THEN CHOOSE k \in 1..Len(vs) :
            /\ sentence_grams(vs[k], n) \cap seen = {}
            /\ \A j \in 1..(k - 1) : sentence_grams(vs[j], n) \cap seen # {}
    ELSE 0

\* an iteration that keeps a candidate none of whose variants clears
avoid_iter_keep_duplicate(st, s, block_ngrams) ==
    LET grams == sentence_grams(s, block_ngrams)
        vs    == _sentence_variants(s)
        k     == first_clear(vs, st.seen, block_ngrams)
    IN  IF grams \cap st.seen # {} /\ k # 0
        THEN [seen     |-> st.seen \cup sentence_grams(vs[k], block_ngrams),
              curated  |-> Append(st.curated, vs[k]),
              branch   |-> "variant",
              examined |-> k]
        ELSE [seen     |-> st.seen \cup grams,
              curated  |-> Append(st.curated, s),
              branch   |-> "asis",
              examined |-> 0]

\* an iteration that emits a variant without recording its n-grams
avoid_iter_forget_variant_grams(st, s, block_ngrams) ==
    LET grams == sentence_grams(s, block_ngrams)
        vs    == _sentence_variants(s)
        k     == first_clear(vs, st.seen, block_ngrams)
    IN  IF grams \cap st.seen # {}
        THEN IF k # 0
             THEN [seen     |-> st.seen,
                   curated  |-> Append(st.curated, vs[k]),
                   branch   |-> "variant",
                   examined |-> k]
             ELSE [seen     |-> st.seen,
                   curated  |-> st.curated,
                   branch   |-> "drop",
                   examined |-> Len(vs)]
        ELSE [seen     |-> st.seen \cup grams,
              curated  |-> Append(st.curated, s),
              branch   |-> "asis",
              examined |-> 0]

\* an iteration that inserts at the front of curated
avoid_iter_prepend(st, s, block_ngrams) ==
    LET grams == sentence_grams(s, block_ngrams)
        vs    == _sentence_variants(s)
        k     == first_clear(vs, st.seen, block_ngrams)
    IN  IF grams \cap st.seen # {}
        THEN IF k # 0
             THEN [seen     |-> st.seen \cup sentence_grams(vs[k], block_ngrams),
                   curated  |-> <<vs[k]>> \o st.curated,
                   branch   |-> "variant",
                   examined |-> k]
             ELSE [seen     |-> st.seen,
                   curated  |-> st.curated,
                   branch   |-> "drop",
                   examined |-> Len(vs)]
        ELSE [seen     |-> st.seen \cup grams,
              curated  |-> <<s>> \o st.curated,
              branch   |-> "asis",
              examined |-> 0]

\* an iteration that records the candidate's n-grams even when it drops it
avoid_iter_drop_marks_seen(st, s, block_ngrams) ==
    LET grams == sentence_grams(s, block_ngrams)
        vs    == _sentence_variants(s)
        k     == first_clear(vs, st.seen, block_ngrams)
    IN  IF grams \cap st.seen # {}
        THEN IF k # 0
             THEN [seen     |-> st.seen \cup sentence_grams(vs[k], block_ngrams),
                   curated  |-> Append(st.curated, vs[k]),
                   branch   |-> "variant",
                   examined |-> k]
             ELSE [seen     |-> st.seen \cup grams,
                   curated  |-> st.curated,
                   branch   |-> "drop",
                   examined |-> Len(vs)]
        ELSE [seen     |-> st.seen \cup grams,
              curated  |-> Append(st.curated, s),
              branch   |-> "asis",
              examined |-> 0]

RECURSIVE emit_all_clear(_, _, _, _)
emit_all_clear(st, vs, k, n) ==
    IF k > Len(vs) THEN st
    ELSE IF sentence_grams(vs[k], n) \cap st.seen = {}
         THEN emit_all_clear([seen    |-> st.seen \cup sentence_grams(vs[k], n),
                              curated |-> Append(st.curated, vs[k])], vs, k + 1, n)
         ELSE emit_all_clear(st, vs, k + 1, n)

\* an iteration whose variant loop lacks the break
avoid_iter_no_break(st, s, block_ngrams) ==
    LET grams == sentence_grams(s, block_ngrams)
        vs    == _sentence_variants(s)
        k     == first_clear(vs, st.seen, block_ngrams)
        r     == emit_all_clear(st, vs, 1, block_ngrams)
    IN  IF grams \cap st.seen # {}
        THEN [seen     |-> r.seen,
              curated  |-> r.curated,
              branch   |-> IF k # 0 THEN "variant" ELSE "drop",
              examined |-> Len(vs)]
        ELSE [seen     |-> st.seen \cup grams,
              curated  |-> Append(st.curated, s),
              branch   |-> "asis",
              examined |-> 0]

\* the body of the for loop of _avoid_repetition
avoid_iter(st, s, block_ngrams) ==
    LET tokens == split(lower(s))
        grams  == _n_grams(tokens, block_ngrams)
    IN  IF grams \cap st.seen # {}
        THEN LET vs == _sentence_variants(s)
                 k  == first_clear(vs, st.seen, block_ngrams)
             IN  IF k # 0
                 THEN [seen     |-> st.seen \cup sentence_grams(vs[k], block_ngrams),
                       curated  |-> Append(st.curated, vs[k]),
                       branch   |-> "variant",
                       examined |-> k]
                 ELSE [seen     |-> st.seen,
                       curated  |-> st.curated,
                       branch   |-> "drop",
                       examined |-> Len(vs)]
        ELSE [seen     |-> st.seen \cup grams,
              curated  |-> Append(st.curated, s),
              branch   |-> "asis",
              examined |-> 0]

RECURSIVE avoid_from(_, _, _, _)
avoid_from(st, sentences, i, block_ngrams) ==
    IF i > Len(sentences) THEN st
    ELSE avoid_from(loop_state(avoid_iter(st, sentences[i], block_ngrams)),
                    sentences, i + 1, block_ngrams)

_avoid_repetition(sentences, block_ngrams) ==
    avoid_from([seen |-> {}, curated |-> <<>>], sentences, 1, block_ngrams).curated

\* an iteration that assigns seen instead of extending it
global_iter_overwrite_seen(st, s, n) ==
    LET grams == sentence_grams(s, n)
        vs    == _sentence_variants(s)
        k     == first_clear(vs, st.seen, n)
    IN  IF grams \cap st.seen # {}
        THEN IF k = 0
             THEN [seen     |-> st.seen,
                   curated  |-> st.curated,
                   branch   |-> "drop",
                   examined |-> Len(vs)]
             ELSE [seen     |-> sentence_grams(vs[k], n),
                   curated  |-> Append(st.curated, vs[k]),
                   branch   |-> "variant",
                   examined |-> k]
        ELSE [seen     |-> grams,
              curated  |-> Append(st.curated, s),
              branch   |-> "asis",
              examined |-> 0]

\* an iteration that keeps a candidate none of whose variants clears
global_iter_keep_duplicate(st, s, n) ==
    LET grams == sentence_grams(s, n)
        vs    == _sentence_variants(s)
        k     == first_clear(vs, st.seen, n)
    IN  IF grams \cap st.seen # {} /\ k # 0
        THEN [seen     |-> st.seen \cup sentence_grams(vs[k], n),
              curated  |-> Append(st.curated, vs[k]),
              branch   |-> "variant",
              examined |-> k]
        ELSE [seen     |-> st.seen \cup grams,
              curated  |-> Append(st.curated, s),
              branch   |-> "asis",
              examined |-> 0]

\* the body of the inner for loop of _apply_global_guard
global_iter(st, s, n) ==
    LET toks  == split(lower(s))
        grams == _n_grams(toks, n)
    IN  IF grams \cap st.seen # {}
        THEN LET vs == _sentence_variants(s)
                 k  == first_clear(vs, st.seen, n)
                 variant_applied == k # 0
             IN  IF ~variant_applied
                 THEN [seen     |-> st.seen,
                       curated  |-> st.curated,
                       branch   |-> "drop",
                       examined |-> Len(vs)]
                 ELSE [seen     |-> st.seen \cup sentence_grams(vs[k], n),
                       curated  |-> Append(st.curated, vs[k]),
                       branch   |-> "variant",
                       examined |-> k]
        ELSE [seen     |-> st.seen \cup grams,
              curated  |-> Append(st.curated, s),
              branch   |-> "asis",
              examined |-> 0]

RECURSIVE global_beat(_, _, _, _)
\* one pass of the outer loop: curated starts empty, seen carries over
global_beat(st, sentences, i, n) ==
    IF i > Len(sentences) THEN st
    ELSE global_beat(loop_state(global_iter(st, sentences[i], n)), sentences, i + 1, n)

\* a guard that leaves emptied groups out of its result
end_beat_skip_empty(curated_beats0, curated0) ==
    IF curated0 = <<>> THEN curated_beats0 ELSE Append(curated_beats0, curated0)

\* curated_beats.append(curated)
end_beat(curated_beats0, curated0) == Append(curated_beats0, curated0)

RECURSIVE global_from(_, _, _, _, _)
global_from(seen0, curated_beats0, beats_sentences0, b, n) ==
    IF b > Len(beats_sentences0) THEN curated_beats0
    ELSE LET st == global_beat([seen |-> seen0, curated |-> <<>>],
                               beats_sentences0[b], 1, n)
         IN  global_from(st.seen, end_beat(curated_beats0, st.curated),
                         beats_sentences0, b + 1, n)

_apply_global_guard(beats_sentences0, n) ==
    global_from({}, <<>>, beats_sentences0, 1, n)

(***************************************************************************)
(* app.py: the story engine's data tables                                  *)
(***************************************************************************)
NAME_BANK ==
    [ general |->
        << <<"A","v","e","r","y">>,
           <<"R","o","w","a","n">>,
           <<"Q","u","i","n","n">>,
           <<"J","o","r","d","a","n">>,
           <<"R","i","l","e","y">>,
           <<"M","o","r","g","a","n">>,
           <<"C","a","s","e","y">>,
           <<"E","m","e","r","s","o","n">>,
           <<"H","a","y","d","e","n">>,
           <<"P","a","r","k","e","r">>,
           <<"S","a","g","e">>,
           <<"T","a","y","l","o","r">>,
           <<"E","l","l","i","o","t">>,
           <<"R","e","e","s","e">>,
           <<"S","k","y","l","e","r">>,
           <<"H","a","r","p","e","r">>,
           <<"F","i","n","l","e","y">>,
           <<"D","a","k","o","t","a">>,
           <<"P","h","o","e","n","i","x">>,
           <<"A","l","e","x">> >>,
      fantasy |->
        << <<"E","l","o","w","e","n">>,
           <<"K","a","e","l">>,
           <<"S","e","r","a","p","h","i","n","e">>,
           <<"T","h","o","r","i","n">>,
           <<"L","y","r","a">>,
           <<"A","l","a","r","i","c">>,
           <<"N","e","r","i","s">>,
           <<"I","s","o","l","d","e">>,
           <<"C","o","r","i","n">>,
           <<"M","i","r","a">> >>,
      scifi |->
        << <<"N","o","v","a">>,
           <<"O","r","i","o","n">>,
           <<"V","e","g","a">>,
           <<"C","a","s","s","i","a","n">>,
           <<"Z","a","r","a">>,
           <<"K","e","p","l","e","r">>,
           <<"A","s","t","r","a">>,
           <<"J","u","n","o">>,
           <<"T","a","l","o","n">>,
           <<"C","y","r","a">> >>,
      mystery |->
        << <<"M","a","r","l","o","w">>,
           <<"S","a","b","l","e">>,
           <<"H","o","l","l","i","s">>,
           <<"E","l","l","i","s">>,
           <<"P","e","r","c","y">>,
           <<"G","r","e","e","r">>,
           <<"B","r","i","a","r">>,
           <<"B","l","a","i","n","e">>,
           <<"T","a","m","s","i","n">>,
           <<"M","a","v","e","n">> >> ]

SETTING_BANK ==
    [ fantasy |->
        << << <<"a"," ","m","i","s","t","-","l","a","c","e","d"," ","v","a","l","l","e","y"," ","o","f"," ","t","o","w","e","r","i","n","g"," ","r","u","i","n","s">>,
              <<"a","g","e"," ","o","f"," ","f","r","a","c","t","u","r","e","d"," ","k","i","n","g","d","o","m","s">>,
              <<"e","n","c","h","a","n","t","e","d">> >>,
           << <<"a"," ","c","l","i","f","f","s","i","d","e"," ","c","i","t","y"," ","c","a","r","v","e","d"," ","f","r","o","m"," ","o","b","s","i","d","i","a","n">>,
              <<"e","r","a"," ","o","f"," ","q","u","i","e","t"," ","r","e","b","e","l","l","i","o","n","s">>,
              <<"b","r","o","o","d","i","n","g">> >> >>,
      scifi |->
        << << <<"a"," ","r","o","t","a","t","i","n","g"," ","h","a","b","i","t","a","t"," ","a","b","o","v","e"," ","a"," ","b","l","u","e"," ","d","w","a","r","f"," ","s","t","a","r">>,
              <<"p","o","s","t","-","e","x","p","a","n","s","i","o","n"," ","c","y","c","l","e">>,
              <<"c","l","i","n","i","c","a","l">> >>,
           << <<"a"," ","d","u","s","t","-","w","r","e","a","t","h","e","d"," ","o","u","t","p","o","s","t"," ","o","n"," ","a"," ","t","i","d","a","l","l","y","-","l","o","c","k","e","d"," ","w","o","r","l","d">>,
              <<"p","r","e","-","j","u","m","p"," ","r","e","n","a","i","s","s","a","n","c","e">>,
              <<"a","u","s","t","e","r","e">> >> >>,
      mystery |->
        << << <<"a"," ","r","a","i","n","-","d","i","m","m","e","d"," ","h","a","r","b","o","r"," ","t","o","w","n"," ","o","f"," ","s","a","l","t"," ","a","n","d"," ","n","e","o","n">>,
              <<"o","f","f","-","s","e","a","s","o","n"," ","l","u","l","l">>,
              <<"s","o","m","b","r","e">> >>,
           << <<"a"," ","m","u","s","e","u","m"," ","w","i","n","g"," ","c","l","o","s","e","d"," ","f","o","r"," ","r","e","n","o","v","a","t","i","o","n">>,
              <<"f","u","n","d","i","n","g"," ","d","r","o","u","g","h","t">>,
              <<"h","u","s","h","e","d">> >> >>,
      general |->
        << << <<"a"," ","q","u","i","e","t"," ","s","u","b","u","r","b"," ","s","t","i","t","c","h","e","d"," ","b","y"," ","c","u","l","-","d","e","-","s","a","c","s">>,
              <<"e","a","r","l","y"," ","a","u","t","u","m","n">>,
              <<"w","i","s","t","f","u","l">> >>,
           << <<"a"," ","s","u","n","-","w","a","r","m","e","d"," ","s","e","a","s","i","d","e"," ","v","i","l","l","a","g","e">>,
              <<"l","a","t","e"," ","s","u","m","m","e","r">>,
              <<"g","o","l","d","e","n">> >> >> ]

THEMES ==
    << <<"t","h","e"," ","c","o","s","t"," ","o","f"," ","t","r","u","t","h">>,
       <<"b","e","c","o","m","i","n","g"," ","w","h","o"," ","y","o","u"," ","a","l","r","e","a","d","y"," ","a","r","e">>,
       <<"t","h","e"," ","k","i","n","d","n","e","s","s"," ","o","f"," ","s","t","r","a","n","g","e","r","s">>,
       <<"p","o","w","e","r"," ","a","n","d"," ","w","h","a","t"," ","i","t"," ","a","s","k","s"," ","o","f"," ","u","s">>,
       <<"p","r","o","m","i","s","e","s"," ","k","e","p","t"," ","t","o","o"," ","l","a","t","e">> >>

DESIRES ==
    << <<"t","o"," ","b","r","i","n","g"," ","s","o","m","e","o","n","e"," ","h","o","m","e">>,
       <<"t","o"," ","p","r","o","v","e"," ","a"," ","q","u","i","e","t"," ","s","u","s","p","i","c","i","o","n">>,
       <<"t","o"," ","k","e","e","p"," ","a"," ","f","r","a","g","i","l","e"," ","p","r","o","m","i","s","e">>,
       <<"t","o"," ","s","t","a","r","t"," ","a","g","a","i","n"," ","w","i","t","h","o","u","t"," ","e","r","a","s","i","n","g"," ","t","h","e"," ","p","a","s","t">>,
       <<"t","o"," ","p","r","o","t","e","c","t"," ","a"," ","s","m","a","l","l"," ","t","h","i","n","g"," ","t","h","a","t"," ","m","a","t","t","e","r","s">> >>

\* str.format templates: a literal part is [lit |-> text], a placeholder [key |-> name]

STAKE_PATTERNS ==
    << << [lit |-> <<"I","f"," ","t","h","e","y"," ","f","a","i","l",","," ">>],
          [key |-> "consequence"],
          [lit |-> <<".">>] >>,
       << [lit |-> <<"F","a","i","l","u","r","e"," ","m","e","a","n","s"," ">>],
          [key |-> "consequence"],
          [lit |-> <<EM_DASH,"a","n","d"," ","n","o"," ","o","n","e"," ","e","l","s","e"," ","w","i","l","l"," ","t","r","y"," ","a","g","a","i","n",".">>] >>,
       << [lit |-> <<"S","u","c","c","e","e","d",","," ","a","n","d"," ">>],
          [key |-> "silver"],
          [lit |-> <<";"," ","f","a","i","l",","," ","a","n","d"," ">>],
          [key |-> "consequence"],
          [lit |-> <<".">>] >> >>

STAKE_FILLERS ==
    [ consequence |->
        << <<"s","o","m","e","o","n","e"," ","g","e","n","t","l","e"," ","w","i","l","l"," ","b","e"," ","b","r","o","k","e","n">>,
           <<"t","h","e"," ","p","l","a","c","e"," ","t","h","e","y"," ","l","o","v","e"," ","w","i","l","l"," ","b","e"," ","s","w","a","l","l","o","w","e","d"," ","b","y"," ","i","n","d","i","f","f","e","r","e","n","c","e">>,
           <<"a"," ","q","u","i","e","t"," ","c","r","u","e","l","t","y"," ","w","i","l","l"," ","b","e","c","o","m","e"," ","n","o","r","m","a","l">>,
           <<"t","h","e","i","r"," ","n","a","m","e"," ","w","i","l","l"," ","b","e"," ","r","e","m","e","m","b","e","r","e","d"," ","f","o","r"," ","t","h","e"," ","w","r","o","n","g"," ","r","e","a","s","o","n">> >>,
      silver |->
        << <<"t","h","e","y"," ","m","i","g","h","t"," ","f","i","n","a","l","l","y"," ","s","l","e","e","p"," ","w","i","t","h","o","u","t"," ","r","e","h","e","a","r","s","i","n","g"," ","t","h","e"," ","p","a","s","t">>,
           <<"t","h","e"," ","o","n","e","s"," ","w","h","o"," ","d","o","u","b","t","e","d"," ","w","i","l","l"," ","s","h","a","r","e"," ","t","h","e","i","r"," ","w","a","r","m","t","h">>,
           <<"t","h","e","y"," ","w","i","l","l"," ","g","e","t"," ","a"," ","s","l","i","v","e","r"," ","o","f"," ","t","h","e","i","r"," ","o","l","d"," ","l","i","f","e"," ","b","a","c","k">> >> ]

TRAITS ==
    << <<"s","o","f","t","-","s","p","o","k","e","n"," ","b","u","t"," ","r","e","l","e","n","t","l","e","s","s">>,
       <<"a"," ","c","a","r","e","f","u","l"," ","o","b","s","e","r","v","e","r"," ","w","i","t","h"," ","a"," ","c","r","o","o","k","e","d"," ","g","r","i","n">>,
       <<"u","n","l","u","c","k","y",","," ","a","n","d"," ","d","o","n","e"," ","a","p","o","l","o","g","i","z","i","n","g">>,
       <<"m","e","t","h","o","d","i","c","a","l"," ","u","n","t","i","l"," ","i","t"," ","m","a","t","t","e","r","s",","," ","t","h","e","n"," ","r","e","c","k","l","e","s","s">>,
       <<"h","a","u","n","t","e","d"," ","b","y"," ","a"," ","p","r","o","m","i","s","e"," ","t","h","e","y"," ","m","e","a","n","t"," ","t","o"," ","k","e","e","p">> >>

ANTAGONIST_TRAITS ==
    << <<"s","m","i","l","e","s"," ","w","i","t","h","o","u","t"," ","s","h","o","w","i","n","g"," ","t","e","e","t","h">>,
       <<"c","o","l","l","e","c","t","s"," ","d","e","b","t","s"," ","t","h","a","t"," ","w","e","r","e"," ","n","e","v","e","r"," ","o","w","e","d">>,
       <<"b","e","l","i","e","v","e","s"," ","m","e","r","c","y"," ","i","s"," ","a"," ","k","i","n","d"," ","o","f"," ","t","h","e","f","t">>,
       <<"t","i","d","i","e","s"," ","e","v","e","r","y"," ","r","o","o","m"," ","t","h","e","y"," ","e","n","t","e","r">> >>

ALLY_TRAITS ==
    << <<"l","a","u","g","h","s"," ","t","o","o"," ","l","o","u","d"," ","a","t"," ","t","h","e"," ","w","r","o","n","g"," ","t","i","m","e">>,
       <<"k","e","e","p","s"," ","l","i","s","t","s"," ","i","n","s","i","d","e"," ","o","f"," ","l","i","s","t","s">>,
       <<"s","a","y","s"," ","m","a","y","b","e"," ","w","h","e","n"," ","t","h","e","y"," ","m","e","a","n"," ","y","e","s">> >>

TONE_TO_STYLE ==
    [ warm |-> [adjectives |-> << <<"w","a","r","m">>, <<"t","e","n","d","e","r">>, <<"g","o","l","d","e","n">> >>,
                cadence |-> "flowing"],
      dark |-> [adjectives |-> << <<"d","i","m">>, <<"h","u","s","h","e","d">>, <<"s","e","v","e","r","e">> >>,
                cadence |-> "staccato"],
      whimsical |-> [adjectives |-> << <<"u","n","r","u","l","y">>, <<"l","i","l","t","i","n","g">>, <<"b","r","i","g","h","t">> >>,
                     cadence |-> "playful"],
      serious |-> [adjectives |-> << <<"m","e","a","s","u","r","e","d">>, <<"q","u","i","e","t">>, <<"p","r","e","c","i","s","e">> >>,
                   cadence |-> "measured"] ]

BEAT_ORDER ==
    << "Hook",
       "Inciting Incident",
       "Debate",
       "Midpoint",
       "Bad Turn",
       "Climax",
       "Resolution" >>

openers_by_cadence ==
    [ flowing |->
        << <<"A","n","d">>,
           <<"S","o","m","e","t","i","m","e","s">>,
           <<"O","f","t","e","n">>,
           <<"M","e","a","n","w","h","i","l","e">> >>,
      staccato |->
        << <<"T","h","e","n">>,
           <<"N","o","w">>,
           <<"A","f","t","e","r">>,
           <<"B","e","f","o","r","e">> >>,
      playful |->
        << <<"S","u","p","p","o","s","e">>,
           <<"M","a","y","b","e">>,
           <<"C","o","n","s","i","d","e","r">>,
           <<"I","m","a","g","i","n","e">> >>,
      measured |->
        << <<"I","n"," ","t","i","m","e">>,
           <<"A","t"," ","l","a","s","t">>,
           <<"E","v","e","n","t","u","a","l","l","y">>,
           <<"I","n"," ","t","r","u","t","h">> >> ]

detail_prefixes ==
    << <<"A"," ","d","e","t","a","i","l",":">>,
       <<"O","n","e"," ","s","m","a","l","l"," ","d","e","t","a","i","l",":">>,
       <<"A"," ","s","t","r","a","y"," ","d","e","t","a","i","l",":">>,
       <<"N","o","t","e","d"," ","i","n"," ","p","a","s","s","i","n","g",":">>,
       <<"A"," ","t","i","n","y"," ","d","e","t","a","i","l",":">> >>

place_intros ==
    << <<"T","h","e"," ","p","l","a","c","e"," ","f","e","e","l","s">>,
       <<"T","h","i","s"," ","p","l","a","c","e"," ","f","e","e","l","s">>,
       <<"T","h","e"," ","s","e","t","t","i","n","g"," ","s","e","e","m","s">>,
       <<"H","e","r","e",","," ","i","t"," ","f","e","e","l","s">>,
       <<"A","r","o","u","n","d"," ","t","h","e","m"," ","i","t"," ","f","e","e","l","s">> >>

choose_verbs ==
    << <<"c","h","o","o","s","e","s">>,
       <<"o","p","t","s"," ","f","o","r">>,
       <<"d","e","c","i","d","e","s"," ","o","n">>,
       <<"e","l","e","c","t","s">>,
       <<"p","i","c","k","s">> >>

ally_suggests ==
    << <<"s","u","g","g","e","s","t","s">>,
       <<"o","f","f","e","r","s">>,
       <<"p","r","o","p","o","s","e","s">>,
       <<"w","h","i","s","p","e","r","s">>,
       <<"i","n","s","i","s","t","s">> >>

templates ==
    << << [key |-> "who"],
          [lit |-> <<" ","n","o","t","i","c","e","s"," ">>],
          [key |-> "change"],
          [lit |-> <<" ","a","n","d"," ","w","e","i","g","h","s"," ">>],
          [key |-> "cost"],
          [lit |-> <<".">>] >>,
       << [key |-> "who"],
          [lit |-> <<" ","r","e","c","a","l","l","s"," ">>],
          [key |-> "memory"],
          [lit |-> <<" ","w","h","i","l","e"," ">>],
          [key |-> "action"],
          [lit |-> <<".">>] >>,
       << [key |-> "ally"],
          [lit |-> <<" ">>],
          [key |-> "ally_verb"],
          [lit |-> <<" ">>],
          [key |-> "suggestion"],
          [lit |-> <<";"," ","i","t"," ","s","o","u","n","d","s"," ">>],
          [key |-> "adverb"],
          [lit |-> <<" ">>],
          [key |-> "feeling"],
          [lit |-> <<".">>] >>,
       << [key |-> "who"],
          [lit |-> <<" ">>],
          [key |-> "choose_verb"],
          [lit |-> <<" ">>],
          [key |-> "choice"],
          [lit |-> <<" ","d","e","s","p","i","t","e"," ">>],
          [key |-> "risk"],
          [lit |-> <<".">>] >>,
       << [key |-> "detail_prefix"],
          [lit |-> <<" ">>],
          [key |-> "detail"],
          [lit |-> <<".">>] >>,
       << [key |-> "place_intro"],
          [lit |-> <<" ">>],
          [key |-> "place_feel"],
          [lit |-> <<","," ","l","i","k","e"," ">>],
          [key |-> "simile"],
          [lit |-> <<".">>] >> >>

fill_choices ==
    [ change |->
        << <<"a"," ","l","i","g","h","t"," ","t","h","a","t"," ","s","h","o","u","l","d"," ","b","e"," ","o","f","f">>,
           <<"a"," ","d","o","o","r"," ","t","h","a","t"," ","n","e","v","e","r"," ","l","o","c","k","e","d">>,
           <<"f","o","o","t","p","r","i","n","t","s"," ","w","h","e","r","e"," ","t","h","e","r","e"," ","w","a","s"," ","d","u","s","t">>,
           <<"a"," ","v","o","i","c","e"," ","t","h","a","t"," ","r","e","m","e","m","b","e","r","s"," ","t","h","e","i","r"," ","n","a","m","e">> >>,
      cost |->
        << <<"t","h","e"," ","w","e","i","g","h","t"," ","o","f"," ","t","h","e","i","r"," ","p","r","o","m","i","s","e">>,
           <<"w","h","a","t"," ","i","t"," ","m","i","g","h","t"," ","m","a","k","e"," ","t","h","e","m"," ","b","e","c","o","m","e">>,
           <<"h","o","w"," ","i","t"," ","w","i","l","l"," ","m","a","r","k"," ","t","h","e","i","r"," ","f","r","i","e","n","d","s">>,
           <<"t","h","e"," ","l","i","f","e"," ","t","h","a","t"," ","w","i","l","l"," ","n","o","t"," ","r","e","t","u","r","n">> >>,
      memory |->
        << <<"a"," ","h","a","l","f","-","f","i","n","i","s","h","e","d"," ","l","e","t","t","e","r">>,
           <<"a"," ","s","h","o","r","e","l","i","n","e"," ","a","t"," ","d","u","s","k">>,
           <<"a","n"," ","u","n","f","i","n","i","s","h","e","d"," ","s","o","n","g">>,
           <<"a"," ","q","u","i","e","t"," ","a","p","o","l","o","g","y">> >>,
      action |->
        << <<"s","o","r","t","i","n","g"," ","o","l","d"," ","t","o","o","l","s">>,
           <<"f","o","l","l","o","w","i","n","g"," ","a"," ","m","a","p"," ","o","f"," ","r","u","m","o","r","s">>,
           <<"l","i","s","t","e","n","i","n","g"," ","a","t"," ","t","h","e"," ","v","e","n","t","s">>,
           <<"r","e","a","d","i","n","g"," ","m","a","r","g","i","n","s"," ","i","n"," ","a"," ","b","o","r","r","o","w","e","d"," ","b","o","o","k">> >>,
      suggestion |->
        << <<"a","s","k","i","n","g"," ","f","o","r"," ","h","e","l","p">>,
           <<"w","a","i","t","i","n","g"," ","o","n","e"," ","m","o","r","e"," ","n","i","g","h","t">>,
           <<"t","r","a","d","i","n","g"," ","a"," ","s","e","c","r","e","t">>,
           <<"t","u","r","n","i","n","g"," ","b","a","c","k"," ","n","o","w">> >>,
      adverb |->
        << <<"s","t","r","a","n","g","e","l","y">>,
           <<"m","o","r","e">>,
           <<"l","e","s","s">>,
           <<"u","n","e","x","p","e","c","t","e","d","l","y">> >>,
      feeling |->
        << <<"r","i","g","h","t">>,
           <<"w","r","o","n","g">>,
           <<"n","e","c","e","s","s","a","r","y">>,
           <<"d","a","n","g","e","r","o","u","s">> >>,
      choice |->
        << <<"t","o"," ","t","e","l","l"," ","t","h","e"," ","t","r","u","t","h">>,
           <<"t","o"," ","t","r","u","s","t"," ","a"," ","s","t","r","a","n","g","e","r">>,
           <<"t","o"," ","h","i","d","e"," ","t","h","e"," ","p","r","o","o","f">>,
           <<"t","o"," ","g","o"," ","a","l","o","n","e">> >>,
      risk |->
        << <<"t","h","e","i","r"," ","n","a","m","e"," ","b","e","c","o","m","i","n","g"," ","a"," ","r","u","m","o","r">>,
           <<"l","o","s","i","n","g"," ","t","h","e"," ","l","a","s","t"," ","p","h","o","t","o","g","r","a","p","h">>,
           <<"s","o","m","e","o","n","e"," ","l","e","a","r","n","i","n","g"," ","w","h","a","t"," ","t","h","e","y"," ","f","e","a","r">>,
           <<"n","e","v","e","r"," ","b","e","i","n","g"," ","b","e","l","i","e","v","e","d">> >>,
      detail |->
        << <<"c","h","a","l","k"," ","d","u","s","t"," ","o","n"," ","a"," ","w","i","n","d","o","w","s","i","l","l">>,
           <<"a"," ","k","e","y"," ","w","i","t","h"," ","t","e","e","t","h"," ","f","i","l","e","d"," ","f","l","a","t">>,
           <<"k","n","u","c","k","l","e","s"," ","i","n","k","e","d"," ","w","i","t","h"," ","d","i","r","e","c","t","i","o","n","s">>,
           <<"a"," ","c","a","l","e","n","d","a","r"," ","m","i","s","s","i","n","g"," ","i","t","s"," ","d","a","y","s">> >>,
      place_feel |->
        << <<"t","i","l","t","e","d">>,
           <<"w","a","t","c","h","f","u","l">>,
           <<"h","o","l","l","o","w">>,
           <<"e","x","p","e","c","t","a","n","t">> >>,
      simile |->
        << <<"a"," ","r","o","o","m"," ","h","o","l","d","i","n","g"," ","i","t","s"," ","b","r","e","a","t","h">>,
           <<"a"," ","s","o","n","g"," ","m","i","s","s","i","n","g"," ","i","t","s"," ","m","i","d","d","l","e">>,
           <<"a"," ","t","i","d","e"," ","w","a","i","t","i","n","g"," ","u","n","d","e","r"," ","i","c","e">>,
           <<"a","n"," ","e","l","e","v","a","t","o","r"," ","b","e","t","w","e","e","n"," ","f","l","o","o","r","s">> >> ]

\* the f-strings of base_prompts, as (beat name, template over the plan's fields)
base_prompts ==
    << << "Hook",
          << [lit |-> <<"I","n","t","r","o","d","u","c","e"," ">>],
             [key |-> "plan.protagonist.name"],
             [lit |-> <<","," ">>],
             [key |-> "plan.protagonist.trait"],
             [lit |-> <<","," ","i","n"," ">>],
             [key |-> "plan.world.setting"],
             [lit |-> <<" ","d","u","r","i","n","g"," ">>],
             [key |-> "plan.world.era"],
             [lit |-> <<"."," ","T","h","e","y"," ","w","a","n","t"," ">>],
             [key |-> "plan.object_of_desire"],
             [lit |-> <<".">>] >> >>,
       << "Inciting Incident",
          << [lit |-> <<"S","o","m","e","t","h","i","n","g"," ","d","i","s","r","u","p","t","s"," ","t","h","e"," ","o","r","d","i","n","a","r","y",":"," ">>],
             [key |-> "plan.antagonist.name"],
             [lit |-> <<","," ","w","h","o"," ">>],
             [key |-> "plan.antagonist.trait"],
             [lit |-> <<","," ","i","n","t","e","r","f","e","r","e","s",".">>] >> >>,
       << "Debate",
          << [key |-> "plan.protagonist.name"],
             [lit |-> <<" ","d","o","u","b","t","s"," ","t","h","e"," ","p","a","t","h"," ","f","o","r","w","a","r","d","."," ">>],
             [key |-> "plan.ally.name"],
             [lit |-> <<","," ">>],
             [key |-> "plan.ally.trait"],
             [lit |-> <<","," ","o","f","f","e","r","s"," ","h","e","l","p",".">>] >> >>,
       << "Midpoint",
          << [lit |-> <<"A"," ","r","e","v","e","a","l"," ","r","e","f","r","a","m","e","s"," ","t","h","e"," ","g","o","a","l"," ","a","b","o","u","t"," ">>],
             [key |-> "plan.theme"],
             [lit |-> <<"."," ","T","h","e"," ","c","o","s","t"," ","e","m","e","r","g","e","s",":"," ">>],
             [key |-> "plan.stakes"] >> >>,
       << "Bad Turn",
          << [lit |-> <<"A"," ","s","e","t","b","a","c","k","."," ">>],
             [key |-> "plan.antagonist.name"],
             [lit |-> <<" ","g","a","i","n","s"," ","a","d","v","a","n","t","a","g","e"," ","i","n"," ">>],
             [key |-> "plan.world.mood"],
             [lit |-> <<" ","c","i","r","c","u","m","s","t","a","n","c","e","s",".">>] >> >>,
       << "Climax",
          << [lit |-> <<"A"," ","d","e","c","i","s","i","v","e"," ","c","h","o","i","c","e"," ","b","y"," ">>],
             [key |-> "plan.protagonist.name"],
             [lit |-> <<" ","i","n"," ","t","h","e"," ","f","a","c","e"," ","o","f"," ">>],
             [key |-> "plan.antagonist.name"],
             [lit |-> <<".">>] >> >>,
       << "Resolution",
          << [lit |-> <<"A","f","t","e","r","m","a","t","h"," ","i","n"," ">>],
             [key |-> "plan.world.setting"],
             [lit |-> <<"."," ","T","h","e"," ","w","o","r","l","d"," ","t","i","l","t","s",";"," ","t","h","r","e","a","d","s"," ","r","e","s","o","l","v","e",","," ","n","o","t"," ","n","e","a","t","l","y",","," ","b","u","t"," ","h","o","n","e","s","t","l","y",".">>] >> >> >>

default_base_prompt == <<"A"," ","m","o","m","e","n","t"," ","a","d","v","a","n","c","e","s"," ","t","h","e"," ","s","t","o","r","y",".">>

(***************************************************************************)
(* More Python primitives, used by the story engine                        *)
(***************************************************************************)
\* str.upper() on one character
upper_char(c) ==
    IF \E i \in DOMAIN LOWER : LOWER[i] = c
    THEN UPPER[CHOOSE i \in DOMAIN LOWER : LOWER[i] = c]
    ELSE c

\* str.replace(old, new, 1)
replace_first(s, old, new) ==
    LET last     == Len(s) - Len(old) + 1
        Match(i) == SubSeq(s, i, i + Len(old) - 1) = old
    IN  IF \E i \in 1..last : Match(i)
        THEN LET m == CHOOSE i \in 1..last : Match(i) /\ \A k \in 1..(i - 1) : ~Match(k)
             IN  SubSeq(s, 1, m - 1) \o new \o SubSeq(s, m + Len(old), Len(s))
        ELSE s

\* str.lstrip()
lstrip(s) ==
    LET first == CHOOSE i \in 1..(Len(s) + 1) :
                    /\ i = Len(s) + 1 \/ ~IsSpace(s[i])
                    /\ \A k \in 1..(i - 1) : IsSpace(s[k])
    IN  SubSeq(s, first, Len(s))

\* str.rstrip()
rstrip(s) ==
    LET last == CHOOSE j \in 0..Len(s) :
                   /\ j = 0 \/ ~IsSpace(s[j])
                   /\ \A k \in (j + 1)..Len(s) : IsSpace(s[k])
    IN  SubSeq(s, 1, last)

\* str.strip()
strip(s) == rstrip(lstrip(s))

\* re.sub(r"\s+", " ", text): one space for each maximal run of whitespace
collapse_spaces(text) ==
    LET Out(i) == IF ~IsSpace(text[i]) THEN <<text[i]>>
                  ELSE IF i > 1 /\ IsSpace(text[i - 1]) THEN <<>>
                  ELSE <<" ">>
    IN  Flatten([i \in 1..Len(text) |-> Out(i)], 1, Len(text))

\* re.sub(r"\s+", " ", text).strip()
_clean_spaces(text) == strip(collapse_spaces(text))

RECURSIVE join(_, _)
\* sep.join(items)
join(sep, items) ==
    IF items = <<>> THEN <<>>
    ELSE IF Len(items) = 1 THEN items[1]
    ELSE items[1] \o sep \o join(sep, Tail(items))

RECURSIVE format_from(_, _, _)
format_from(tpl, i, fill) ==
    IF i > Len(tpl) THEN <<>>
    ELSE (IF "key" \in DOMAIN tpl[i] THEN fill[tpl[i].key] ELSE tpl[i].lit)
         \o format_from(tpl, i + 1, fill)

\* tpl.format(**fill), and the evaluation of an f-string over its fields
format(tpl, fill) == format_from(tpl, 1, fill)

IsSentenceEnd(c) == c \in {".", "!", "?"}

RECURSIVE resplit_from(_, _)
\* the pieces of s from position from on: a separator is a maximal run of
\* whitespace that directly follows one of . ! ?
resplit_from(s, from) ==
    LET IsSep(i) == IsSpace(s[i]) /\ i > 1 /\ IsSentenceEnd(s[i - 1])
    IN  IF \E i \in from..Len(s) : IsSep(i)
        THEN LET m    == CHOOSE i \in from..Len(s) :
                            IsSep(i) /\ \A k \in from..(i - 1) : ~IsSep(k)
                 last == CHOOSE j \in m..Len(s) :
                            /\ j = Len(s) \/ ~IsSpace(s[j + 1])
                            /\ \A k \in m..j : IsSpace(s[k])
             IN  <<SubSeq(s, from, m - 1)>> \o resplit_from(s, last + 1)
        ELSE <<SubSeq(s, from, Len(s))>>

\* re.split(r"(?<=[.!?])\s+", txt)
re_split_sentences(txt) == resplit_from(txt, 1)

\* [x for x in items if keep(x)] with keep(x) == x # <<>>
SelectNonEmpty(items) == SelectSeq(items, LAMBDA x : x # <<>>)

(***************************************************************************)
(* random.Random                                                           *)
(*                                                                         *)
(* A generator is its state, an integer.  The Mersenne Twister of the      *)
(* standard library is stood in for by a linear congruential generator:    *)
(* like it, a pure function of the seed and of the number of draws made.   *)
(***************************************************************************)
None == <<>>

Some(v) == <<v>>

\* random.Random(seed) for an integer seed
Random(seed) == (seed * 7919 + 104729) % 65537

\* the state after one draw
rng_next(st) == (st * 75 + 74) % 65537

\* rng.choice(items), given the state after the draw
rng_choice(st, items) == items[(st % Len(items)) + 1]

\* rng.random() < 0.5, given the state after the draw
rng_random_below_half(st) == st < 32768

\* _rng(seed): os.urandom supplies the seed when none is given
_rng(seed, urandom) == Random(IF seed = None THEN urandom ELSE seed[1])

(***************************************************************************)
(* app.py: plan_story                                                      *)
(***************************************************************************)
Lookup(table, key, default) == IF key \in DOMAIN table THEN table[key] ELSE default

\* NAME_BANK.get(genre, []) + NAME_BANK["general"]
name_bank_for(genre) == Lookup(NAME_BANK, genre, <<>>) \o NAME_BANK["general"]

\* plan_story(config); the title, a digest that no text depends on, is left out
plan_story(config, urandom) ==
    LET r0  == _rng(config.seed, urandom)
        genre_key == IF config.genre \in DOMAIN SETTING_BANK THEN config.genre ELSE "general"
        r1  == rng_next(r0)
        place == rng_choice(r1, SETTING_BANK[genre_key])
        r2  == rng_next(r1)
        r3  == rng_next(r2)
        r4  == rng_next(r3)
        r5  == rng_next(r4)
        r6  == rng_next(r5)
        r7  == rng_next(r6)
        r8  == rng_next(r7)
        r9  == rng_next(r8)
        r10 == rng_next(r9)
        r11 == rng_next(r10)
        r12 == rng_next(r11)
        stake_tpl == rng_choice(r10, STAKE_PATTERNS)
    IN  [ protagonist |-> [name  |-> rng_choice(r2, name_bank_for(config.genre)),
                           role  |-> "protagonist",
                           trait |-> rng_choice(r3, TRAITS)],
          antagonist  |-> [name  |-> rng_choice(r4, name_bank_for(config.genre)),
                           role  |-> "antagonist",
                           trait |-> rng_choice(r5, ANTAGONIST_TRAITS)],
          ally        |-> [name  |-> rng_choice(r6, name_bank_for(config.genre)),
                           role  |-> "ally",
                           trait |-> rng_choice(r7, ALLY_TRAITS)],
          world       |-> [setting |-> place[1], era |-> place[2], mood |-> place[3]],
          theme       |-> rng_choice(r8, THEMES),
          object_of_desire |-> rng_choice(r9, DESIRES),
          stakes      |-> format(stake_tpl,
                                 [consequence |-> rng_choice(r11, STAKE_FILLERS.consequence),
                                  silver      |-> rng_choice(r12, STAKE_FILLERS.silver)]) ]

(***************************************************************************)
(* app.py: _style_sentence and expand_beat                                 *)
(***************************************************************************)
\* _style_sentence(text, tone, rng): the styled sentence and the generator after it
_style_sentence(text, tone, rng) ==
    LET style      == Lookup(TONE_TO_STYLE, tone, TONE_TO_STYLE["serious"])
        adjectives == style.adjectives
        cadence    == style.cadence
        openers    == openers_by_cadence[cadence]
        r1 == rng_next(rng)
        r2 == rng_next(r1)
        opener == rng_choice(r2, << <<>>, rng_choice(r1, openers) \o <<",", " ">> >>)
        r3 == rng_next(r2)
        r4 == rng_next(r3)
        adjective == rng_choice(r4, << <<>>, rng_choice(r3, adjectives) >>)
        r5 == IF adjective # <<>> THEN rng_next(r4) ELSE r4
        injected == IF adjective # <<>> /\ rng_random_below_half(r5)
                    THEN replace_first(text, <<" ">>, <<" ">> \o adjective \o <<" ">>)
                    ELSE text
        opened == opener \o injected
        capitalised == <<upper_char(opened[1])>> \o Tail(opened)
        ended == IF \E p \in {".", "!", "?"} : endswith(capitalised, <<p>>)
                 THEN capitalised
                 ELSE capitalised \o <<".">>
    IN  [v |-> _clean_spaces(ended), rng |-> r5]

RECURSIVE style_all(_, _, _, _, _)
\* [_style_sentence(p, tone, rng) for p in parts]
style_all(parts, i, tone, rng, acc) ==
    IF i > Len(parts) THEN [v |-> acc, rng |-> rng]
    ELSE LET r == _style_sentence(parts[i], tone, rng)
         IN  style_all(parts, i + 1, tone, r.rng, Append(acc, r.v))

\* the fields the f-strings of base_prompts read from the plan
plan_fields(plan) ==
    ("plan.protagonist.name" :> plan.protagonist.name) @@
    ("plan.protagonist.trait" :> plan.protagonist.trait) @@
    ("plan.antagonist.name" :> plan.antagonist.name) @@
    ("plan.antagonist.trait" :> plan.antagonist.trait) @@
    ("plan.ally.name" :> plan.ally.name) @@
    ("plan.ally.trait" :> plan.ally.trait) @@
    ("plan.world.setting" :> plan.world.setting) @@
    ("plan.world.era" :> plan.world.era) @@
    ("plan.world.mood" :> plan.world.mood) @@
    ("plan.theme" :> plan.theme) @@
    ("plan.stakes" :> plan.stakes) @@
    ("plan.object_of_desire" :> plan.object_of_desire)

\* base_prompts.get(beat_name, "A moment advances the story.")
base_prompt(beat_name, plan) ==
    IF \E i \in DOMAIN base_prompts : base_prompts[i][1] = beat_name
    THEN format((CHOOSE p \in Range(base_prompts) : p[1] = beat_name)[2], plan_fields(plan))
    ELSE default_base_prompt

\* a candidate count that ignores the length
target_sentence_count_fixed(cache) == Lookup(cache, "unused", 5)

\* target_sentences.get(plan_length_cache.get("length", "medium"), 5)
target_sentence_count(cache) ==
    Lookup([short |-> 3, medium |-> 5, long |-> 7], Lookup(cache, "length", "medium"), 5)

RECURSIVE fill_sentences(_, _, _, _, _)
\* while len(sentences) < n_sent: one templated, styled sentence more
fill_sentences(sentences0, n_sent, fill_base, tone, rng) ==
    IF Len(sentences0) >= n_sent THEN sentences0
    ELSE LET r1 == rng_next(rng)
             r2 == rng_next(r1)
             r3 == rng_next(r2)
             r4 == rng_next(r3)
             r5 == rng_next(r4)
             tpl  == rng_choice(r1, templates)
             fill == [detail_prefix |-> rng_choice(r2, detail_prefixes),
                      place_intro   |-> rng_choice(r3, place_intros),
                      choose_verb   |-> rng_choice(r4, choose_verbs),
                      ally_verb     |-> rng_choice(r5, ally_suggests)] @@ fill_base
             s == _style_sentence(format(tpl, fill), tone, r5)
         IN  fill_sentences(Append(sentences0, s.v), n_sent, fill_base, tone, s.rng)

\* lines 487-579: the list sentences of the handcrafted expansion, before
\* the guard: the styled base prompt, then templated sentences up to n_sent
handcrafted_candidates(base, plan, tone, rng, n_sent) ==
    LET r1  == rng_next(rng)
        r2  == rng_next(r1)
        r3  == rng_next(r2)
        r4  == rng_next(r3)
        r5  == rng_next(r4)
        r6  == rng_next(r5)
        r7  == rng_next(r6)
        r8  == rng_next(r7)
        r9  == rng_next(r8)
        r10 == rng_next(r9)
        r11 == rng_next(r10)
        r12 == rng_next(r11)
        fill_base ==
            [who        |-> plan.protagonist.name,
             ally       |-> plan.ally.name,
             change     |-> rng_choice(r1, fill_choices.change),
             cost       |-> rng_choice(r2, fill_choices.cost),
             memory     |-> rng_choice(r3, fill_choices.memory),
             action     |-> rng_choice(r4, fill_choices.action),
             suggestion |-> rng_choice(r5, fill_choices.suggestion),
             adverb     |-> rng_choice(r6, fill_choices.adverb),
             feeling    |-> rng_choice(r7, fill_choices.feeling),
             choice     |-> rng_choice(r8, fill_choices.choice),
             risk       |-> rng_choice(r9, fill_choices.risk),
             detail     |-> rng_choice(r10, fill_choices.detail),
             place_feel |-> rng_choice(r11, fill_choices.place_feel),
             simile     |-> rng_choice(r12, fill_choices.simile)]
        anchor == _style_sentence(base, tone, r12)
    IN  fill_sentences(<<anchor.v>>, n_sent, fill_base, tone, anchor.rng)

\* the offline, handcrafted expansion of expand_beat
handcrafted_beat(base, plan, tone, rng, n_sent) ==
    _avoid_repetition(handcrafted_candidates(base, plan, tone, rng, n_sent), 4)

\* parts[-k:]
last_parts(parts, k) == SubSeq(parts, Max(1, Len(parts) - k + 1), Len(parts))

\* the model-backed expansion of expand_beat, given the text the pipeline generated
llm_beat(txt, tone, rng, n_sent) ==
    LET parts0 == re_split_sentences(txt)
        parts1 == SelectNonEmpty([i \in 1..Len(parts0) |-> strip(parts0[i])])
        parts  == last_parts(parts1, Max(n_sent, 3))
        styled == style_all(parts, 1, tone, rng, <<>>).v
    IN  _avoid_repetition(styled, 4)

\* an expansion that gives up, with no sentences, when the pipeline fails
expand_beat_no_fallback(beat_name, plan, tone, rng, use_llm, cache, available, gen) ==
    IF use_llm /\ available
    THEN IF gen.raised THEN <<>>
         ELSE llm_beat(gen.text, tone, rng, target_sentence_count(cache))
    ELSE handcrafted_beat(base_prompt(beat_name, plan), plan, tone, rng,
                          target_sentence_count(cache))

\* expand_beat(beat_name, plan, tone, rng, use_llm), reading the module's
\* plan_length_cache and TRANSFORMERS_AVAILABLE; gen is what the text-generation
\* pipeline did when called: [raised |-> TRUE], or [raised |-> FALSE, text |-> t]
expand_beat(beat_name, plan, tone, rng, use_llm, cache, available, gen) ==
    LET n_sent == target_sentence_count(cache)
        base   == base_prompt(beat_name, plan)
    IN  IF use_llm /\ available /\ ~gen.raised
        THEN llm_beat(gen.text, tone, rng, n_sent)
        ELSE handcrafted_beat(base, plan, tone, rng, n_sent)

(***************************************************************************)
(* Bounds and inputs of the guard runs                                     *)
(***************************************************************************)
\* longest candidate list (all beats together, for the grouped guard)
MaxLen == 3

\* most groups handed to the grouped guard
MaxBeats == 2

\* largest n-gram size tried; the smallest is 0
MaxN == 2

\* candidate sentences: "A  and b.", "a, b.", "a b", "b."
SentencePool ==
    { <<"A"," "," ","a","n","d"," ","b",".">>,
      <<"a",","," ","b",".">>,
      <<"a"," ","b">>,
      <<"b",".">> }

SentenceLists == UNION {[1..k -> SentencePool] : k \in 0..MaxLen}

NSizes == 0..MaxN

RECURSIVE SumTo(_, _)
SumTo(f, k) == IF k = 0 THEN 0 ELSE f[k] + SumTo(f, k - 1)

RECURSIVE Concat(_)
Concat(groups) == IF groups = <<>> THEN <<>> ELSE Head(groups) \o Concat(Tail(groups))

\* every way to cut list l into g consecutive groups, empty groups included
Groupings(l, g) ==
    { [b \in 1..g |-> SubSeq(l, SumTo(sz, b - 1) + 1, SumTo(sz, b))] :
        sz \in {f \in [1..g -> 0..Len(l)] : SumTo(f, g) = Len(l)} }

BeatLists == UNION {Groupings(l, g) : l \in SentenceLists, g \in 0..MaxBeats}

(***************************************************************************)
(* State                                                                   *)
(***************************************************************************)
VARIABLES
    fn,               \* the guard being run: "_avoid_repetition" or "_apply_global_guard"
    pc,               \* "loop" while the guard iterates, "done" once it has returned
    sentences,        \* argument of _avoid_repetition
    beats_sentences,  \* argument of _apply_global_guard
    ngram,            \* argument block_ngrams, resp. n
    idx,              \* candidates of the current list consumed so far
    beat,             \* groups consumed so far (_apply_global_guard)
    seen,             \* the local set seen
    curated,          \* the local list curated
    curated_beats,    \* the local list curated_beats
    branch,           \* branch taken by the last iteration
    examined,         \* variants examined by the last iteration
    origin,           \* input position of each entry of curated
    TRANSFORMERS_AVAILABLE,  \* module flag: the transformers import succeeded
    pipeline_ok,      \* whether the text-generation pipeline can be built and run
    plan_length_cache,\* the module-level dict plan_length_cache
    global_random,    \* state of the random module's shared generator, once seeded
    sampler,          \* state of the pipeline's sampler
    gen_pc,           \* "idle", or "beats" inside a generate_story call
    gen_config,       \* the running call's config
    gen_plan,         \* the running call's plan
    gen_beats,        \* the running call's list beats
    results,          \* per config, the distinct values generate_story returned
    metas,            \* per config, the distinct meta entries it returned with them
    calls,            \* per thread, the generate_story call the thread is running
    f_name,           \* the function a single application is about
    f_args,           \* its arguments
    f_ret,            \* its outcome, once it has returned
    cancel_event,     \* the desktop App's threading.Event cancel_event: set or not
    workers,          \* per worker thread of the App, where it is in _gen_worker
    stories,          \* LibraryManager.stories
    last_deleted,     \* LibraryManager.last_deleted
    lib_op            \* the last LibraryManager call, its result and the stories before it

guardVars == <<fn, pc, sentences, beats_sentences, ngram, idx, beat, seen, curated,
               curated_beats, branch, examined, origin>>

genVars == <<TRANSFORMERS_AVAILABLE, pipeline_ok, plan_length_cache, global_random,
             sampler, gen_pc, gen_config, gen_plan, gen_beats, results, metas>>

concVars == <<calls>>

funVars == <<f_name, f_args, f_ret>>

deskVars == <<cancel_event, workers, stories, last_deleted, lib_op>>

vars == <<guardVars, genVars, concVars, funVars, deskVars>>

(***************************************************************************)
(* Guard runs                                                              *)
(***************************************************************************)
GuardStart ==
    /\ pc = "loop"
    /\ idx = 0
    /\ beat = 0
    /\ seen = {}
    /\ curated = <<>>
    /\ curated_beats = <<>>
    /\ branch = "none"
    /\ examined = 0
    /\ origin = <<>>

\* no thread is running generate_story
ConcUnused == calls = <<>>

\* the desktop App and its library are not running
DeskUnused ==
    /\ cancel_event = FALSE
    /\ workers = <<>>
    /\ stories = <<>>
    /\ last_deleted = <<>>
    /\ lib_op = <<>>

\* no single application in progress
FunUnused ==
    /\ f_name = "none"
    /\ f_args = <<>>
    /\ f_ret = <<>>

\* no guard run in progress
GuardIdle ==
    /\ fn = "none"
    /\ sentences = <<>>
    /\ beats_sentences = <<>>
    /\ ngram = 0
    /\ pc = "idle"
    /\ idx = 0
    /\ beat = 0
    /\ seen = {}
    /\ curated = <<>>
    /\ curated_beats = <<>>
    /\ branch = "none"
    /\ examined = 0
    /\ origin = <<>>

\* no generation in progress, nothing generated
GenUnused ==
    /\ TRANSFORMERS_AVAILABLE = FALSE
    /\ pipeline_ok = FALSE
    /\ plan_length_cache = <<>>
    /\ global_random = <<>>
    /\ sampler = 0
    /\ gen_pc = "idle"
    /\ gen_config = <<>>
    /\ gen_plan = <<>>
    /\ gen_beats = <<>>
    /\ results = <<>>
    /\ metas = <<>>

Init ==
    /\ GenUnused
    /\ ConcUnused
    /\ DeskUnused
    /\ FunUnused
    /\ ngram \in NSizes
    /\ \/ /\ fn = "_avoid_repetition"
          /\ sentences \in SentenceLists
          /\ beats_sentences = <<>>
       \/ /\ fn = "_apply_global_guard"
          /\ beats_sentences \in BeatLists
          /\ sentences = <<>>
    /\ GuardStart

\* for s in sentences: one iteration
AvoidIter ==
    /\ fn = "_avoid_repetition"
    /\ pc = "loop"
    /\ idx < Len(sentences)
    /\ LET r == avoid_iter([seen |-> seen, curated |-> curated],
                           sentences[idx + 1], ngram)
       IN  /\ seen' = r.seen
           /\ curated' = r.curated
           /\ branch' = r.branch
           /\ examined' = r.examined
           /\ origin' = origin \o [k \in 1..(Len(r.curated) - Len(curated)) |-> idx + 1]
    /\ idx' = idx + 1
    /\ UNCHANGED <<fn, pc, sentences, beats_sentences, ngram, beat, curated_beats>>
    /\ UNCHANGED <<genVars, concVars, funVars, deskVars>>

\* return curated
AvoidReturn ==
    /\ fn = "_avoid_repetition"
    /\ pc = "loop"
    /\ idx = Len(sentences)
    /\ pc' = "done"
    /\ UNCHANGED <<fn, sentences, beats_sentences, ngram, idx, beat, seen, curated,
                   curated_beats, branch, examined, origin>>
    /\ UNCHANGED <<genVars, concVars, funVars, deskVars>>

\* for s in sentences (inner loop): one iteration
GlobalIter ==
    /\ fn = "_apply_global_guard"
    /\ pc = "loop"
    /\ beat < Len(beats_sentences)
    /\ idx < Len(beats_sentences[beat + 1])
    /\ LET r == global_iter([seen |-> seen, curated |-> curated],
                            beats_sentences[beat + 1][idx + 1], ngram)
       IN  /\ seen' = r.seen
           /\ curated' = r.curated
           /\ branch' = r.branch
           /\ examined' = r.examined
           /\ origin' = origin \o [k \in 1..(Len(r.curated) - Len(curated)) |-> idx + 1]
    /\ idx' = idx + 1
    /\ UNCHANGED <<fn, pc, sentences, beats_sentences, ngram, beat, curated_beats>>
    /\ UNCHANGED <<genVars, concVars, funVars, deskVars>>

\* curated_beats.append(curated), then the next group with curated = []
GlobalEndBeat ==
    /\ fn = "_apply_global_guard"
    /\ pc = "loop"
    /\ beat < Len(beats_sentences)
    /\ idx = Len(beats_sentences[beat + 1])
    /\ curated_beats' = end_beat(curated_beats, curated)
    /\ curated' = <<>>
    /\ origin' = <<>>
    /\ idx' = 0
    /\ beat' = beat + 1
    /\ UNCHANGED <<fn, pc, sentences, beats_sentences, ngram, seen, branch, examined>>
    /\ UNCHANGED <<genVars, concVars, funVars, deskVars>>

\* return curated_beats
GlobalReturn ==
    /\ fn = "_apply_global_guard"
    /\ pc = "loop"
    /\ beat = Len(beats_sentences)
    /\ pc' = "done"
    /\ UNCHANGED <<fn, sentences, beats_sentences, ngram, idx, beat, seen, curated,
                   curated_beats, branch, examined, origin>>
    /\ UNCHANGED <<genVars, concVars, funVars, deskVars>>

Next ==
    \/ AvoidIter
    \/ AvoidReturn
    \/ GlobalIter
    \/ GlobalEndBeat
    \/ GlobalReturn

Spec == Init /\ [][Next]_vars

(***************************************************************************)
(* The text-generation pipeline of the optional transformers package       *)
(*                                                                         *)
(* gen(base, do_sample=True, ...) samples a continuation of the prompt     *)
(* with the pipeline's own sampler, whose state lives outside the Python   *)
(* random module: random.seed(seed) does not touch it, each call advances  *)
(* it.  Three continuations stand for the texts it can sample; the third   *)
(* is the stuttering output a small model falls into.                      *)
(***************************************************************************)
\* " The night was soft. Everyone slept.",  " A lamp flickered! Who was there?"
\* and " la la la la la la la la la la la la la la la la."
LLM_CONTINUATIONS ==
    << <<" ","T","h","e"," ","n","i","g","h","t"," ","w","a","s"," ","s","o","f","t",".",
         " ","E","v","e","r","y","o","n","e"," ","s","l","e","p","t",".">>,
       <<" ","A"," ","l","a","m","p"," ","f","l","i","c","k","e","r","e","d","!",
         " ","W","h","o"," ","w","a","s"," ","t","h","e","r","e","?">>,
       <<" ","l","a"," ","l","a"," ","l","a"," ","l","a"," ","l","a"," ","l","a",
         " ","l","a"," ","l","a"," ","l","a"," ","l","a"," ","l","a"," ","l","a",
         " ","l","a"," ","l","a"," ","l","a"," ","l","a",".">> >>

\* gen(base, ...)[0]["generated_text"]: the prompt followed by the sampled text
pipeline_generate(prompt, sampler_state) ==
    prompt \o LLM_CONTINUATIONS[(sampler_state % Len(LLM_CONTINUATIONS)) + 1]

\* the sampler after one generation
sampler_next(sampler_state) == (sampler_state + 1) % Len(LLM_CONTINUATIONS)

(***************************************************************************)
(* app.py: generate_story, one call at a time                              *)
(***************************************************************************)
\* the StoryConfig values of the generation runs (title_hint only feeds the title)
GenConfigs ==
    { [genre |-> "fantasy", tone |-> "warm", length |-> "short",
       seed |-> Some(1), enable_llm |-> FALSE],
      [genre |-> "fantasy", tone |-> "warm", length |-> "medium",
       seed |-> Some(1), enable_llm |-> FALSE],
      [genre |-> "mystery", tone |-> "dark", length |-> "long",
       seed |-> Some(2), enable_llm |-> FALSE],
      [genre |-> "fantasy", tone |-> "warm", length |-> "short",
       seed |-> Some(1), enable_llm |-> TRUE] }

\* the values os.urandom can seed a generator with
UrandomValues == {11, 12}

GenIdle ==
    /\ gen_pc = "idle"
    /\ gen_config = None
    /\ gen_plan = None
    /\ gen_beats = <<>>

\* config.seed or 0
seed_or_zero(seed) == IF seed = None THEN 0 ELSE seed[1]

\* generate_story, lines 589-596: plan the story and publish length and seed
GenerateStart ==
    /\ gen_pc = "idle"
    /\ \E config \in GenConfigs, urandom \in UrandomValues :
          /\ gen_config' = config
          /\ gen_plan' = plan_story(config, urandom)
          /\ plan_length_cache' = [length |-> config.length,
                                   seed   |-> seed_or_zero(config.seed)]
    /\ gen_beats' = <<>>
    /\ gen_pc' = "beats"
    /\ UNCHANGED <<TRANSFORMERS_AVAILABLE, pipeline_ok, global_random, sampler, results,
                   metas>>
    /\ UNCHANGED <<guardVars, concVars, funVars, deskVars>>

\* lines 473-483: where a failing try block raises: pipeline(...) at 474,
\* gen(...) at 477 after random.seed at 476, or the handling of its output
FailureSteps == {"construction", "generation", "post-processing"}

\* whether expand_beat enters its model-backed branch
UsesPipeline == gen_config.enable_llm /\ TRANSFORMERS_AVAILABLE

\* generate_story, lines 598-601: expand the next beat of BEAT_ORDER
GenerateBeat ==
    /\ gen_pc = "beats"
    /\ Len(gen_beats) < Len(BEAT_ORDER)
    /\ \E urandom \in UrandomValues :
          LET beat_name == BEAT_ORDER[Len(gen_beats) + 1]
              gen == IF pipeline_ok
                     THEN [raised |-> FALSE,
                           text   |-> pipeline_generate(base_prompt(beat_name, gen_plan),
                                                        sampler)]
                     ELSE [raised |-> TRUE]
              sentences0 == expand_beat(beat_name, gen_plan, gen_config.tone,
                                        _rng(gen_config.seed, urandom),
                                        gen_config.enable_llm, plan_length_cache,
                                        TRANSFORMERS_AVAILABLE, gen)
          IN  gen_beats' = Append(gen_beats, <<beat_name, sentences0>>)
    /\ \E step \in IF UsesPipeline /\ ~pipeline_ok THEN FailureSteps ELSE {"none"} :
          /\ global_random' = IF UsesPipeline /\ step # "construction"
                              THEN Some(Random(Lookup(plan_length_cache, "seed", 0)))
                              ELSE global_random
          /\ sampler' = IF UsesPipeline /\ step \in {"none", "post-processing"}
                        THEN sampler_next(sampler)
                        ELSE sampler
    /\ UNCHANGED <<TRANSFORMERS_AVAILABLE, pipeline_ok, plan_length_cache, gen_pc,
                   gen_config, gen_plan, results, metas>>
    /\ UNCHANGED <<guardVars, concVars, funVars, deskVars>>

\* a story text whose paragraphs are separated by one newline only
assemble_single_newline(paragraphs) ==
    [text |-> join(<<"\n">>, paragraphs), paragraphs |-> paragraphs]

\* lines 612-650: the paragraphs joined by a blank line, and the returned dict
assemble(paragraphs) == [text |-> join(<<"\n", "\n">>, paragraphs), paragraphs |-> paragraphs]

\* lines 606-610: paragraphs.append(" ".join(guarded[idx])) for each beat
paragraphs_of(guarded) == assemble([i \in 1..Len(guarded) |-> join(<<" ">>, guarded[i])])

\* the returned value when the guard across beats is left out
story_result_unguarded(beats) ==
    paragraphs_of([i \in 1..Len(beats) |-> beats[i][2]])

\* the returned value when the guard across beats works on single words
story_result_unigram_guard(beats) ==
    paragraphs_of(_apply_global_guard([i \in 1..Len(beats) |-> beats[i][2]], 1))

\* the value generate_story returns, less its meta entry
story_result(beats) ==
    paragraphs_of(_apply_global_guard([i \in 1..Len(beats) |-> beats[i][2]], 4))

\* {"short": 0.86, "medium": 0.9, "long": 0.92}.get(length_key, 0.9)
threshold_for(length_key) ==
    Lookup([short |-> Ratio(86, 100), medium |-> Ratio(90, 100), long |-> Ratio(92, 100)],
           length_key, Ratio(90, 100))

\* a flag that passes whatever the ratio
uniqueness_flag_always_pass(config, uniq4) ==
    [anti_repetition_passed |-> TRUE, uniq4 |-> uniq4]

\* lines 617-620: the advisory flag for a ratio
uniqueness_flag(config, uniq4) ==
    [anti_repetition_passed |-> ratio_ge(uniq4, threshold_for(config.length)),
     uniq4                  |-> uniq4]

\* lines 615-620: tokens of the lower-cased story text, their ratio, the flag
repetition_check(config, story_text) ==
    uniqueness_flag(config, _unique_ngram_ratio(findall_words(lower(story_text)), 4))

\* a meta whose beat list names only the beats that kept a sentence
story_meta_kept_beats(config, beats, result) ==
    [beats |-> SelectSeq([i \in 1..Len(beats) |->
                             IF result.paragraphs[i] = <<>> THEN "" ELSE beats[i][1]],
                         LAMBDA name : name # "")]
       @@ repetition_check(config, result.text)

\* lines 622-644: the entries of meta computed from the run (beats, the
\* advisory flag and the ratio behind uniqueness_score)
story_meta(config, beats, result) ==
    [beats |-> [i \in 1..Len(beats) |-> beats[i][1]]]
       @@ repetition_check(config, result.text)

\* generate_story, lines 603-650: guard across beats, assemble and return
GenerateFinish ==
    /\ gen_pc = "beats"
    /\ Len(gen_beats) = Len(BEAT_ORDER)
    /\ \E result \in {story_result(gen_beats)} :
          /\ results' = [results EXCEPT ![gen_config] = @ \cup {result}]
          /\ metas' = [metas EXCEPT ![gen_config] =
                          @ \cup {story_meta(gen_config, gen_beats, result)}]
    /\ gen_pc' = "idle"
    /\ gen_config' = None
    /\ gen_plan' = None
    /\ gen_beats' = <<>>
    /\ UNCHANGED <<TRANSFORMERS_AVAILABLE, pipeline_ok, plan_length_cache, global_random,
                   sampler>>
    /\ UNCHANGED <<guardVars, concVars, funVars, deskVars>>

GenInit ==
    /\ TRANSFORMERS_AVAILABLE \in BOOLEAN
    /\ pipeline_ok \in BOOLEAN
    /\ plan_length_cache = <<>>
    /\ global_random = None
    /\ sampler = 0
    /\ results = [c \in GenConfigs |-> {}]
    /\ metas = [c \in GenConfigs |-> {}]
    /\ GenIdle
    /\ GuardIdle
    /\ ConcUnused
    /\ DeskUnused
    /\ FunUnused

GenNext ==
    \/ GenerateStart
    \/ GenerateBeat
    \/ GenerateFinish

SpecGen == GenInit /\ [][GenNext]_vars

(***************************************************************************)
(* app.py: generate_story called from several threads                      *)
(*                                                                         *)
(* The server started by cli (app.run) handles each request on its own     *)
(* thread, so calls of generate_story overlap.  A step below is what one   *)
(* thread does between two thread switches; switching more often only adds *)
(* behaviours.  Each thread makes one call, with a configuration no other  *)
(* thread uses.                                                            *)
(***************************************************************************)
Threads == {1, 2}

\* the StoryConfig values of the overlapping calls
ConcConfigs ==
    { [genre |-> "fantasy", tone |-> "warm", length |-> "short",
       seed |-> Some(1), enable_llm |-> FALSE],
      [genre |-> "mystery", tone |-> "dark", length |-> "medium",
       seed |-> Some(2), enable_llm |-> TRUE] }

\* a thread that has not called generate_story yet
NoCall == [pc |-> "idle", config |-> None, plan |-> None, beats |-> <<>>,
           reads |-> <<>>, result |-> None]

\* what one expand_beat call reads from plan_length_cache: the length behind
\* n_sent (line 468) and, inside the model-backed branch, the seed (line 475)
cache_reads(config, cache, available, ok) ==
    [n_sent |-> target_sentence_count(cache),
     seed   |-> IF config.enable_llm /\ available /\ ok
                THEN Some(Lookup(cache, "seed", 0))
                ELSE None]

\* generate_story, lines 589-596, on thread t
ConcStart(t) ==
    /\ calls[t].pc = "idle"
    /\ \E config \in ConcConfigs, urandom \in UrandomValues :
          /\ \A u \in Threads \ {t} : calls[u].config # config
          /\ calls' = [calls EXCEPT ![t] = [NoCall EXCEPT !.pc = "beats",
                                                          !.config = config,
                                                          !.plan = plan_story(config, urandom)]]
          /\ plan_length_cache' = [length |-> config.length,
                                   seed   |-> seed_or_zero(config.seed)]
    /\ UNCHANGED <<TRANSFORMERS_AVAILABLE, pipeline_ok, global_random, sampler,
                   gen_pc, gen_config, gen_plan, gen_beats, results, metas>>
    /\ UNCHANGED <<guardVars, funVars, deskVars>>

\* generate_story, lines 598-601, on thread t: expand the next beat
ConcBeat(t) ==
    /\ calls[t].pc = "beats"
    /\ Len(calls[t].beats) < Len(BEAT_ORDER)
    /\ \E urandom \in UrandomValues :
          LET c         == calls[t]
              beat_name == BEAT_ORDER[Len(c.beats) + 1]
              gen == IF pipeline_ok
                     THEN [raised |-> FALSE,
                           text   |-> pipeline_generate(base_prompt(beat_name, c.plan),
                                                        sampler)]
                     ELSE [raised |-> TRUE]
              sentences0 == expand_beat(beat_name, c.plan, c.config.tone,
                                        _rng(c.config.seed, urandom),
                                        c.config.enable_llm, plan_length_cache,
                                        TRANSFORMERS_AVAILABLE, gen)
          IN  calls' = [calls EXCEPT
                          ![t].beats = Append(@, <<beat_name, sentences0>>),
                          ![t].reads = Append(@, cache_reads(c.config, plan_length_cache,
                                                             TRANSFORMERS_AVAILABLE,
                                                             pipeline_ok))]
    /\ LET piped == calls[t].config.enable_llm /\ TRANSFORMERS_AVAILABLE /\ pipeline_ok
       IN  /\ global_random' = IF piped
                               THEN Some(Random(Lookup(plan_length_cache, "seed", 0)))
                               ELSE global_random
           /\ sampler' = IF piped THEN sampler_next(sampler) ELSE sampler
    /\ UNCHANGED <<TRANSFORMERS_AVAILABLE, pipeline_ok, plan_length_cache,
                   gen_pc, gen_config, gen_plan, gen_beats, results, metas>>
    /\ UNCHANGED <<guardVars, funVars, deskVars>>

\* generate_story, lines 603-650, on thread t: guard, assemble and return
ConcFinish(t) ==
    /\ calls[t].pc = "beats"
    /\ Len(calls[t].beats) = Len(BEAT_ORDER)
    /\ calls' = [calls EXCEPT ![t].pc = "done",
                              ![t].result = Some(story_result(calls[t].beats))]
    /\ UNCHANGED <<TRANSFORMERS_AVAILABLE, pipeline_ok, plan_length_cache, global_random,
                   sampler, gen_pc, gen_config, gen_plan, gen_beats, results, metas>>
    /\ UNCHANGED <<guardVars, funVars, deskVars>>

ConcInit ==
    /\ TRANSFORMERS_AVAILABLE \in BOOLEAN
    /\ pipeline_ok = TRUE
    /\ plan_length_cache = <<>>
    /\ global_random = None
    /\ sampler = 0
    /\ results = <<>>
    /\ metas = <<>>
    /\ GenIdle
    /\ calls = [t \in Threads |-> NoCall]
    /\ GuardIdle
    /\ FunUnused
    /\ DeskUnused

ConcNext ==
    \E t \in Threads :
        \/ ConcStart(t)
        \/ ConcBeat(t)
        \/ ConcFinish(t)

SpecConc == ConcInit /\ [][ConcNext]_vars

(***************************************************************************)
(* app.py: single applications of expand_beat                              *)
(***************************************************************************)
\* beat names handed to expand_beat: those of BEAT_ORDER and two that the
\* table base_prompts does not hold
BeatNamePool == Range(BEAT_ORDER) \cup {"Epilogue", "hook"}

\* what plan_length_cache holds when expand_beat is called on its own
BeatCaches ==
    {<<>>, [length |-> "short", seed |-> 1], [length |-> "medium", seed |-> 1],
     [length |-> "long", seed |-> 2]}

\* the arguments (beat_name, plan, tone, rng, use_llm) of the applications
BeatArgs ==
    {[beat_name |-> b, plan |-> plan_story(c, 11), tone |-> c.tone,
      rng |-> _rng(c.seed, 11), use_llm |-> c.enable_llm] :
        b \in BeatNamePool, c \in GenConfigs}

\* expand_beat, lines 441-581, applied to f_args: no statement of it raises
\* for a plan made by plan_story, so the outcome is its return value
ExpandBeat ==
    /\ f_name = "expand_beat"
    /\ f_ret = None
    /\ LET a   == f_args
           gen == IF pipeline_ok
                  THEN [raised |-> FALSE,
                        text   |-> pipeline_generate(base_prompt(a.beat_name, a.plan),
                                                     sampler)]
                  ELSE [raised |-> TRUE]
       IN  f_ret' = Some([raised    |-> FALSE,
                          sentences |-> expand_beat(a.beat_name, a.plan, a.tone, a.rng,
                                                    a.use_llm, plan_length_cache,
                                                    TRANSFORMERS_AVAILABLE, gen)])
    /\ LET piped == f_args.use_llm /\ TRANSFORMERS_AVAILABLE /\ pipeline_ok
       IN  /\ global_random' = IF piped
                               THEN Some(Random(Lookup(plan_length_cache, "seed", 0)))
                               ELSE global_random
           /\ sampler' = IF piped THEN sampler_next(sampler) ELSE sampler
    /\ UNCHANGED <<TRANSFORMERS_AVAILABLE, pipeline_ok, plan_length_cache,
                   gen_pc, gen_config, gen_plan, gen_beats, results, metas>>
    /\ UNCHANGED <<f_name, f_args>>
    /\ UNCHANGED <<guardVars, concVars, deskVars>>

BeatInit ==
    /\ TRANSFORMERS_AVAILABLE \in BOOLEAN
    /\ pipeline_ok = TRUE
    /\ plan_length_cache \in BeatCaches
    /\ global_random = None
    /\ sampler = 0
    /\ results = <<>>
    /\ metas = <<>>
    /\ GenIdle
    /\ ConcUnused
    /\ DeskUnused
    /\ GuardIdle
    /\ f_name = "expand_beat"
    /\ f_args \in BeatArgs
    /\ f_ret = None

BeatNext == ExpandBeat

SpecBeat == BeatInit /\ [][BeatNext]_vars

(***************************************************************************)
(* app.py: whole calls of generate_story, as the self-test makes them      *)
(***************************************************************************)
\* lines 990-993: the values the self-test combines; further fixed seeds are
\* added to its [None, 42, 1337]
SelfTestGenres == {"general", "fantasy", "scifi", "mystery"}
SelfTestTones == {"serious", "warm", "dark", "whimsical"}
SelfTestLengths == {"short", "medium"}
SelfTestSeeds == {None, Some(42), Some(1337), Some(0), Some(1)}

\* StoryConfig(genre=g, tone=t, length=l, seed=s): enable_llm defaults to False
SelfTestConfigs ==
    {[genre |-> g, tone |-> t, length |-> l, seed |-> s, enable_llm |-> FALSE] :
        g \in SelfTestGenres, t \in SelfTestTones, l \in SelfTestLengths,
        s \in SelfTestSeeds}

\* what os.urandom gives the generators of one call that has no seed: the
\* first value to plan_story, the next seven to the beats
UrandomStreams ==
    {[i \in 1..8 |-> 11], [i \in 1..8 |-> IF i % 2 = 1 THEN 12 ELSE 11]}

\* lines 598-601: the list beats of a call
story_beats(config, plan, urandoms, available) ==
    [i \in 1..Len(BEAT_ORDER) |->
        <<BEAT_ORDER[i],
          expand_beat(BEAT_ORDER[i], plan, config.tone, _rng(config.seed, urandoms[i + 1]),
                      config.enable_llm,
                      [length |-> config.length, seed |-> seed_or_zero(config.seed)],
                      available, [raised |-> TRUE])>>]

\* lines 646-650: the returned dict
returned_story(result, meta) ==
    [text |-> result.text, paragraphs |-> result.paragraphs, meta |-> meta]

\* lines 603-650 for the list beats
finish_story(config, beats) ==
    returned_story(story_result(beats), story_meta(config, beats, story_result(beats)))

\* generate_story(config) of a config that does not enable the pipeline
generate_story(config, urandoms, available) ==
    finish_story(config, story_beats(config, plan_story(config, urandoms[1]), urandoms,
                                     available))

\* the calls the runs make
SelfTestArgs ==
    {a \in [config : SelfTestConfigs, urandoms : UrandomStreams] :
        a.config.seed = None \/ a.urandoms = [i \in 1..8 |-> 11]}

\* lines 1000-1001: out = generate_story(cfg)
SelfTestRun ==
    /\ f_name = "generate_story"
    /\ f_ret = None
    /\ f_ret' = Some(generate_story(f_args.config, f_args.urandoms, TRANSFORMERS_AVAILABLE))
    /\ plan_length_cache' = [length |-> f_args.config.length,
                             seed   |-> seed_or_zero(f_args.config.seed)]
    /\ UNCHANGED <<TRANSFORMERS_AVAILABLE, pipeline_ok, global_random, sampler,
                   gen_pc, gen_config, gen_plan, gen_beats, results, metas>>
    /\ UNCHANGED <<f_name, f_args>>
    /\ UNCHANGED <<guardVars, concVars, deskVars>>

SelfTestInit ==
    /\ TRANSFORMERS_AVAILABLE = FALSE
    /\ pipeline_ok = FALSE
    /\ plan_length_cache = <<>>
    /\ global_random = None
    /\ sampler = 0
    /\ results = <<>>
    /\ metas = <<>>
    /\ GenIdle
    /\ ConcUnused
    /\ DeskUnused
    /\ GuardIdle
    /\ f_name = "generate_story"
    /\ f_args \in SelfTestArgs
    /\ f_ret = None

SelfTestNext == SelfTestRun

SpecSelfTest == SelfTestInit /\ [][SelfTestNext]_vars

(***************************************************************************)
(* Single applications of the n-gram and ratio functions                   *)
(***************************************************************************)
\* longest token list
MaxTokens == 4

\* n-gram sizes run from -MaxGram to MaxGram
MaxGram == 3

\* windows run from -1 to MaxWindow
MaxWindow == 5

TokenLists == UNION {[1..k -> {"a", "b"}] : k \in 0..MaxTokens}

NgramSizes == (0 - MaxGram)..MaxGram

Windows == (0 - 1)..MaxWindow

\* app.py _n_grams(tokens, n)
ApplyNGrams ==
    /\ f_name = "app._n_grams"
    /\ f_ret = None
    /\ f_ret' = Some(_n_grams(f_args.tokens, f_args.n))
    /\ UNCHANGED <<f_name, f_args>>
    /\ UNCHANGED <<guardVars, genVars, concVars, deskVars>>

\* bedtime_story_maker.py _n_grams(tokens, n)
ApplyNGramsList ==
    /\ f_name = "bedtime_story_maker._n_grams"
    /\ f_ret = None
    /\ f_ret' = Some(_n_grams_list(f_args.tokens, f_args.n))
    /\ UNCHANGED <<f_name, f_args>>
    /\ UNCHANGED <<guardVars, genVars, concVars, deskVars>>

\* app.py _unique_ngram_ratio(tokens, n)
ApplyUniqueNgramRatio ==
    /\ f_name = "_unique_ngram_ratio"
    /\ f_ret = None
    /\ f_ret' = Some(_unique_ngram_ratio(f_args.tokens, f_args.n))
    /\ UNCHANGED <<f_name, f_args>>
    /\ UNCHANGED <<guardVars, genVars, concVars, deskVars>>

\* bedtime_story_maker.py _unique_ratio(tokens, n, window)
ApplyUniqueRatio ==
    /\ f_name = "_unique_ratio"
    /\ f_ret = None
    /\ f_ret' = Some(_unique_ratio(f_args.tokens, f_args.n, f_args.window))
    /\ UNCHANGED <<f_name, f_args>>
    /\ UNCHANGED <<guardVars, genVars, concVars, deskVars>>

NgramInit ==
    /\ GenUnused
    /\ ConcUnused
    /\ DeskUnused
    /\ GuardIdle
    /\ f_ret = None
    /\ \/ /\ f_name \in {"app._n_grams", "bedtime_story_maker._n_grams",
                         "_unique_ngram_ratio"}
          /\ f_args \in [tokens : TokenLists, n : NgramSizes]
       \/ /\ f_name = "_unique_ratio"
          /\ f_args \in [tokens : TokenLists, n : NgramSizes, window : Windows]

NgramNext ==
    \/ ApplyNGrams
    \/ ApplyNGramsList
    \/ ApplyUniqueNgramRatio
    \/ ApplyUniqueRatio

SpecNgram == NgramInit /\ [][NgramNext]_vars

(***************************************************************************)
(* app.py: repeated applications of _sentence_variants                     *)
(***************************************************************************)
\* most pieces in a sentence
MaxPieces == 3

\* calls made with the same sentence
MaxCalls == 2

\* the pieces sentences are put together from
SentencePieces == { <<"a","n","d">>, <<",">>, <<" ">>, <<"s">>, <<".">> }

\* the sentences handed to _sentence_variants: "", "and", "sand.", "and and", ...
VariantSentences ==
    {Flatten(p, 1, Len(p)) : p \in UNION {[1..k -> SentencePieces] : k \in 0..MaxPieces}}

\* one more call _sentence_variants(base); f_ret lists what the calls returned
ApplySentenceVariants ==
    /\ f_name = "_sentence_variants"
    /\ Len(f_ret) < MaxCalls
    /\ f_ret' = Append(f_ret, _sentence_variants(f_args.base))
    /\ UNCHANGED <<f_name, f_args>>
    /\ UNCHANGED <<guardVars, genVars, concVars, deskVars>>

VariantsInit ==
    /\ GenUnused
    /\ ConcUnused
    /\ DeskUnused
    /\ GuardIdle
    /\ f_name = "_sentence_variants"
    /\ f_args \in [base : VariantSentences]
    /\ f_ret = <<>>

VariantsNext == ApplySentenceVariants

SpecVariants == VariantsInit /\ [][VariantsNext]_vars

(***************************************************************************)
(* main.py: generate_story, the choice of paragraphs                       *)
(*                                                                         *)
(* A paragraph is named by the template it is formatted from: its kind and *)
(* the template's index in its list.                                       *)
(***************************************************************************)
\* most segment templates in a template set (the built-in sets have 5)
MaxSegments == 8

\* most segment templates of the calls that need more segments than exist
MaxRepeatPool == 2

\* opening and closing templates in a set, as in the built-in sets
TemplateChoices == 3

\* {"Short": 4, "Medium": 7, "Long": 10}.get(length, 7)
target_paras(length) == Lookup([Short |-> 4, Medium |-> 7, Long |-> 10], length, 7)

\* needed = max(0, target_paras - 2)
needed_segments(length) == Max(0, target_paras(length) - 2)

\* a list that is left as sampled
list_unsorted(xs) == xs

RECURSIVE list_sort(_)
\* list.sort() on a list of integers
list_sort(xs) ==
    IF xs = <<>> THEN <<>>
    ELSE LET m == CHOOSE k \in 1..Len(xs) : \A j \in 1..Len(xs) : xs[k] <= xs[j]
         IN  <<xs[m]>> \o list_sort(SubSeq(xs, 1, m - 1) \o SubSeq(xs, m + 1, Len(xs)))

RECURSIVE ascending(_)
\* the members of a set of integers in ascending order
ascending(S) ==
    IF S = {} THEN <<>>
    ELSE LET m == CHOOSE x \in S : \A y \in S : x <= y
         IN  <<m>> \o ascending(S \ {m})

\* the list with its entries in reverse
reversed(xs) == [k \in 1..Len(xs) |-> xs[Len(xs) + 1 - k]]

\* random.sample(range(n), k): k distinct indices in an order of the
\* generator's choosing; of the orders, the ascending and the descending one
\* are kept for every choice of indices
random_sample(n, k) ==
    UNION {{ascending(S), reversed(ascending(S))} :
              S \in {T \in SUBSET (0..(n - 1)) : Cardinality(T) = k}}

\* lines 303-311: the lists chosen can be, as template indices
chosen_segments(n, needed) ==
    IF n = 0 THEN {<<>>}
    ELSE IF needed <= n
    THEN {list_sort(indices) : indices \in random_sample(n, needed)}
    ELSE [1..needed -> 0..(n - 1)]

\* lines 288-332: the paragraphs of the story
story_paragraphs(opening, chosen, include_breathing, include_moral, closing) ==
    <<[kind |-> "opening", template |-> opening]>>
    \o [k \in 1..Len(chosen) |-> [kind |-> "segment", template |-> chosen[k]]]
    \o (IF include_breathing THEN <<[kind |-> "breathing", template |-> 0]>> ELSE <<>>)
    \o (IF include_moral THEN <<[kind |-> "moral", template |-> 0]>> ELSE <<>>)
    \o <<[kind |-> "closing", template |-> closing]>>

\* the calls: a length (one of them unknown to the table), the number of
\* segment templates of the template set, and the two switches
MainArgs ==
    {a \in [length : {"Short", "Medium", "Long", "Epic"}, segments : 0..MaxSegments,
            include_breathing : BOOLEAN, include_moral : BOOLEAN] :
        a.segments >= needed_segments(a.length) \/ a.segments <= MaxRepeatPool}

\* main.py generate_story, lines 196-332
MainGenerateStory ==
    /\ f_name = "main.generate_story"
    /\ f_ret = None
    /\ \E opening \in 0..(TemplateChoices - 1), closing \in 0..(TemplateChoices - 1),
          chosen \in chosen_segments(f_args.segments, needed_segments(f_args.length)) :
          f_ret' = Some(story_paragraphs(opening, chosen, f_args.include_breathing,
                                         f_args.include_moral, closing))
    /\ UNCHANGED <<f_name, f_args>>
    /\ UNCHANGED <<guardVars, genVars, concVars, deskVars>>

MainInit ==
    /\ GenUnused
    /\ ConcUnused
    /\ DeskUnused
    /\ GuardIdle
    /\ f_name = "main.generate_story"
    /\ f_args \in MainArgs
    /\ f_ret = None

MainNext == MainGenerateStory

SpecMain == MainInit /\ [][MainNext]_vars

(***************************************************************************)
(* bedtime_story_maker.py: the App's generation workers and Cancel         *)
(*                                                                         *)
(* Generate and Batch each start a thread running _gen_worker; all threads *)
(* share the one Event self.cancel_event.  A worker is at "clear" (started,*)
(* before line 524), "loop" (at the head of its for loop), "generating"    *)
(* (inside self.content.generate) or "done".  The test of the event and    *)
(* the start of the generate call that follows it are taken as one step.   *)
(* cancelled records that Cancel was requested while the worker was        *)
(* iterating over its seeds.                                               *)
(***************************************************************************)
\* worker threads that can be alive together
Workers == {1, 2}

\* largest batch count
MaxBatch == 2

NoWorker == [pc |-> "idle", count |-> 0, idx |-> 0, cancelled |-> FALSE]

\* _generate_one (count 1) or _run_batch (count = max(1, batch_count)), lines
\* 505-507 and 543-548: start a thread on _gen_worker
StartWorker(w) ==
    /\ workers[w].pc \in {"idle", "done"}
    /\ \E count \in 1..MaxBatch :
          workers' = [workers EXCEPT ![w] = [pc |-> "clear", count |-> count, idx |-> 0,
                                             cancelled |-> FALSE]]
    /\ UNCHANGED <<cancel_event, stories, last_deleted, lib_op>>
    /\ UNCHANGED <<guardVars, genVars, concVars, funVars>>

\* _gen_worker, lines 509-524: read the settings, then self.cancel_event.clear()
WorkerClear(w) ==
    /\ workers[w].pc = "clear"
    /\ cancel_event' = FALSE
    /\ workers' = [workers EXCEPT ![w].pc = "loop"]
    /\ UNCHANGED <<stories, last_deleted, lib_op>>
    /\ UNCHANGED <<guardVars, genVars, concVars, funVars>>

\* lines 525-527 and 533: the next seed, if any: break when the event is set,
\* else enter self.content.generate; after the loop the status is shown
WorkerNext(w) ==
    /\ workers[w].pc = "loop"
    /\ workers' = [workers EXCEPT ![w].pc =
                      IF workers[w].idx < workers[w].count /\ ~cancel_event
                      THEN "generating" ELSE "done"]
    /\ UNCHANGED <<cancel_event, stories, last_deleted, lib_op>>
    /\ UNCHANGED <<guardVars, genVars, concVars, funVars>>

\* lines 527-532: the generate call returns, the result is kept and shown
WorkerGenerated(w) ==
    /\ workers[w].pc = "generating"
    /\ workers' = [workers EXCEPT ![w].pc = "loop", ![w].idx = @ + 1]
    /\ UNCHANGED <<cancel_event, stories, last_deleted, lib_op>>
    /\ UNCHANGED <<guardVars, genVars, concVars, funVars>>

\* _cancel_jobs, line 549: self.cancel_event.set()
CancelJobs ==
    /\ cancel_event' = TRUE
    /\ workers' = [w \in Workers |->
                      IF workers[w].pc \in {"loop", "generating"}
                      THEN [workers[w] EXCEPT !.cancelled = TRUE]
                      ELSE workers[w]]
    /\ UNCHANGED <<stories, last_deleted, lib_op>>
    /\ UNCHANGED <<guardVars, genVars, concVars, funVars>>

BatchInit ==
    /\ GenUnused
    /\ ConcUnused
    /\ GuardIdle
    /\ FunUnused
    /\ cancel_event = FALSE
    /\ workers = [w \in Workers |-> NoWorker]
    /\ stories = <<>>
    /\ last_deleted = None
    /\ lib_op = None

BatchNext ==
    \/ CancelJobs
    \/ \E w \in Workers :
          \/ StartWorker(w)
          \/ WorkerClear(w)
          \/ WorkerNext(w)
          \/ WorkerGenerated(w)

SpecBatch == BatchInit /\ [][BatchNext]_vars

(***************************************************************************)
(* bedtime_story_maker.py: LibraryManager                                  *)
(*                                                                         *)
(* stories is the list self.stories, last_deleted the pending undo (None   *)
(* or the deleted story).  A story is reduced to its id and one field      *)
(* that tells two versions with the same id apart.  save() writes the list *)
(* to a file and swallows every error; it changes nothing in memory.       *)
(* lib_op records the last call: its name, argument, return value, the     *)
(* list before the call, and the name and return value of the call before. *)
(***************************************************************************)
\* number of distinct story ids
MaxStories == 3

StoryIds == 1..MaxStories

StoryTexts == {"a", "b"}

StoryDicts == [id : StoryIds, text : StoryTexts]

story_ids(sts) == {sts[i].id : i \in 1..Len(sts)}

story_set(sts) == {sts[i] : i \in 1..Len(sts)}

distinct_ids(sts) == \A i, j \in 1..Len(sts) : sts[i].id = sts[j].id => i = j

\* the lists load() can read back: what an earlier run saved
Libraries ==
    {sts \in UNION {[1..n -> StoryDicts] : n \in 0..MaxStories} : distinct_ids(sts)}

add_story_always_insert(sts, story) == <<story>> \o sts

\* add_story, lines 230-234: replace the first entry with the same id in
\* place, else insert at the front
add_story(sts, story) ==
    LET hits == {i \in 1..Len(sts) : sts[i].id = story.id}
    IN  IF hits # {}
        THEN [sts EXCEPT ![CHOOSE i \in hits : \A j \in hits : i <= j] = story]
        ELSE <<story>> \o sts

\* get_story, line 235: the first story with that id, or None
get_story(sts, sid) ==
    LET hits == {i \in 1..Len(sts) : sts[i].id = sid}
    IN  IF hits # {}
        THEN Some(sts[CHOOSE i \in hits : \A j \in hits : i <= j])
        ELSE None

\* delete_story, lines 236-241
delete_story(sts, pending, sid) ==
    LET st == get_story(sts, sid)
    IN  IF st = None
        THEN [stories |-> sts, last_deleted |-> pending, ret |-> "False"]
        ELSE [stories |-> SelectSeq(sts, LAMBDA s : s.id # sid),
              last_deleted |-> st, ret |-> "True"]

undo_delete_keeps_pending(sts, pending) ==
    IF pending # None
    THEN [stories |-> add_story(sts, pending[1]), last_deleted |-> pending, ret |-> "True"]
    ELSE [stories |-> sts, last_deleted |-> pending, ret |-> "False"]

\* undo_delete, lines 242-245
undo_delete(sts, pending) ==
    IF pending # None
    THEN [stories |-> add_story(sts, pending[1]), last_deleted |-> None, ret |-> "True"]
    ELSE [stories |-> sts, last_deleted |-> pending, ret |-> "False"]

\* name and return value of the last call
LastCall ==
    IF lib_op = None
    THEN [name |-> "none", ret |-> "None"]
    ELSE [name |-> lib_op[1].name, ret |-> lib_op[1].ret]

AddStory ==
    /\ \E story \in StoryDicts :
          /\ stories' = add_story(stories, story)
          /\ lib_op' = Some([name |-> "add_story", arg |-> story.id, ret |-> "None",
                             before |-> stories, prev |-> LastCall])
    /\ UNCHANGED <<cancel_event, workers, last_deleted>>
    /\ UNCHANGED <<guardVars, genVars, concVars, funVars>>

DeleteStory ==
    /\ \E sid \in StoryIds :
          \E r \in {delete_story(stories, last_deleted, sid)} :
             /\ stories' = r.stories
             /\ last_deleted' = r.last_deleted
             /\ lib_op' = Some([name |-> "delete_story", arg |-> sid, ret |-> r.ret,
                                before |-> stories, prev |-> LastCall])
    /\ UNCHANGED <<cancel_event, workers>>
    /\ UNCHANGED <<guardVars, genVars, concVars, funVars>>

UndoDelete ==
    /\ \E r \in {undo_delete(stories, last_deleted)} :
          /\ stories' = r.stories
          /\ last_deleted' = r.last_deleted
          /\ lib_op' = Some([name |-> "undo_delete", arg |-> 0, ret |-> r.ret,
                             before |-> stories, prev |-> LastCall])
    /\ UNCHANGED <<cancel_event, workers>>
    /\ UNCHANGED <<guardVars, genVars, concVars, funVars>>

LibraryInit ==
    /\ GenUnused
    /\ ConcUnused
    /\ GuardIdle
    /\ FunUnused
    /\ cancel_event = FALSE
    /\ workers = <<>>
    /\ stories \in Libraries
    /\ last_deleted = None
    /\ lib_op = None

LibraryNext ==
    \/ AddStory
    \/ DeleteStory
    \/ UndoDelete

SpecLibrary == LibraryInit /\ [][LibraryNext]_vars

(***************************************************************************)
(* Properties of the repetition guards                                     *)
(***************************************************************************)
\* the n-grams of a sentence at the run's n-gram size
Grams(s) == sentence_grams(s, ngram)

\* every sentence emitted so far by the running guard
Emitted ==
    IF fn = "_avoid_repetition" THEN curated ELSE Concat(curated_beats) \o curated

\* the candidate the next iteration consumes
Candidate ==
    IF fn = "_avoid_repetition"
    THEN sentences[idx + 1]
    ELSE beats_sentences[beat + 1][idx + 1]

\* the step is one iteration over a candidate
IsIteration == pc = "loop" /\ idx' = idx + 1

NoSharedNgram(out) ==
    \A i, j \in 1..Len(out) : i # j => Grams(out[i]) \cap Grams(out[j]) = {}

RECURSIVE Embeds(_, _)
\* out is obtained from inp by deleting entries and replacing others by one of
\* their variants, in order
Embeds(out, inp) ==
    IF out = <<>> THEN TRUE
    ELSE IF inp = <<>> THEN FALSE
    ELSE IF Head(out) \in Range(_sentence_variants(Head(inp)))
         THEN Embeds(Tail(out), Tail(inp))
         ELSE Embeds(out, Tail(inp))

AvoidDone == fn = "_avoid_repetition" /\ pc = "done"

GlobalDone == fn = "_apply_global_guard" /\ pc = "done"

\* C1: for an n-gram size >= 1, no two sentences of the list _avoid_repetition
\* returns share an n-gram
C1_NoSharedNgram ==
    AvoidDone /\ ngram >= 1 => NoSharedNgram(curated)

\* a run that rewrote or dropped a candidate and returned two sentences that
\* both have n-grams
C1_Witness ==
    /\ AvoidDone
    /\ ngram >= 1
    /\ curated # sentences
    /\ \E i, j \in 1..Len(curated) : i # j /\ Grams(curated[i]) # {} /\ Grams(curated[j]) # {}

\* C2: running _avoid_repetition on its own output, with the same n-gram size
\* and a fresh seen set, returns that output unchanged
C2_Idempotent ==
    AvoidDone => _avoid_repetition(curated, ngram) = curated

\* a run whose output differs from its input and holds a rewritten sentence
C2_Witness ==
    /\ AvoidDone
    /\ Len(curated) >= 2
    /\ Len(curated) < Len(sentences)
    /\ \E k \in 1..Len(curated) : curated[k] # sentences[origin[k]]

\* C3: the output of _avoid_repetition keeps the input order: every output
\* sentence is the input sentence at its position of origin or one of that
\* sentence's variants, and the positions of origin strictly increase
C3_OrderPreserved ==
    fn = "_avoid_repetition" =>
        /\ Len(origin) = Len(curated)
        /\ \A k \in 1..Len(curated) :
              /\ origin[k] \in 1..Len(sentences)
              /\ curated[k] \in Range(_sentence_variants(sentences[origin[k]]))
        /\ \A k \in 2..Len(origin) : origin[k] > origin[k - 1]
        /\ Embeds(curated, sentences)

\* a finished run that dropped a candidate between two it kept
C3_Witness ==
    /\ AvoidDone
    /\ Len(curated) >= 2
    /\ \E k \in 2..Len(origin) : origin[k] > origin[k - 1] + 1

\* C4: when the candidate collides with seen and some variant does not, the
\* iteration emits the first variant in list order that does not collide, adds
\* exactly that variant's n-grams to seen, and examines no later variant
C4_FirstClearVariant ==
    [][ (/\ IsIteration
         /\ Grams(Candidate) \cap seen # {}
         /\ \E k \in 1..Len(_sentence_variants(Candidate)) :
               Grams(_sentence_variants(Candidate)[k]) \cap seen = {})
        => LET vs == _sentence_variants(Candidate)
               clear == {k \in 1..Len(vs) : Grams(vs[k]) \cap seen = {}}
               first == CHOOSE k \in clear : \A j \in clear : k <= j
           IN  /\ curated' = Append(curated, vs[first])
               /\ seen' = seen \cup Grams(vs[first])
               /\ examined' = first
               /\ branch' = "variant" ]_vars

\* an iteration that emitted the third variant of four, after two collided
C4_Witness ==
    /\ branch = "variant"
    /\ examined = 3
    /\ curated # <<>>
    /\ Grams(curated[Len(curated)]) \subseteq seen

\* C5: when the candidate and every one of its variants collide with seen, the
\* iteration emits nothing and leaves seen and the output so far unchanged
C5_DropLeavesStateUnchanged ==
    [][ (/\ IsIteration
         /\ Grams(Candidate) \cap seen # {}
         /\ \A k \in 1..Len(_sentence_variants(Candidate)) :
               Grams(_sentence_variants(Candidate)[k]) \cap seen # {})
        => /\ seen' = seen
           /\ curated' = curated
           /\ curated_beats' = curated_beats
           /\ branch' = "drop" ]_vars

\* an iteration that dropped its candidate after examining all its variants
C5_Witness ==
    /\ branch = "drop"
    /\ examined >= 3
    /\ idx >= 1
    /\ seen # {}

SeenIsUnionOfEmitted ==
    seen = UNION {Grams(Emitted[k]) : k \in 1..Len(Emitted)}

\* C6: in both guards seen never loses an n-gram from one step to the next, and
\* it always equals the union of the n-gram sets of the sentences emitted so far
C6_SeenGrowsAsUnion ==
    /\ []SeenIsUnionOfEmitted
    /\ [][seen \subseteq seen']_vars

\* the grouped guard, in a later group, after emitting sentences of two groups
C6_Witness ==
    /\ fn = "_apply_global_guard"
    /\ beat >= 1
    /\ curated # <<>>
    /\ curated_beats[1] # <<>>
    /\ Cardinality(seen) >= 2

\* C7: for a non-empty candidate list _avoid_repetition returns the first
\* candidate unchanged in first place, and at least one and at most as many
\* sentences as it was given
C7_FirstAcceptedLengthBounded ==
    AvoidDone /\ sentences # <<>> =>
        /\ Len(curated) >= 1
        /\ Len(curated) <= Len(sentences)
        /\ curated[1] = sentences[1]

\* a finished run over identical sentences that returned fewer than it was given
C7_Witness ==
    /\ AvoidDone
    /\ Len(sentences) >= 3
    /\ \A k \in 1..Len(sentences) : sentences[k] = sentences[1]
    /\ Len(curated) >= 1
    /\ Len(curated) < Len(sentences)

\* C8: _apply_global_guard returns as many groups as it was given, in order,
\* each no longer than its input group and made of sentences (or variants of
\* sentences) of that input group in their original order
C8_GroupStructurePreserved ==
    GlobalDone =>
        /\ Len(curated_beats) = Len(beats_sentences)
        /\ \A b \in 1..Len(curated_beats) :
              /\ Len(curated_beats[b]) <= Len(beats_sentences[b])
              /\ Embeds(curated_beats[b], beats_sentences[b])

\* a finished run in which a non-empty group came out empty
C8_Witness ==
    /\ GlobalDone
    /\ Len(beats_sentences) >= 2
    /\ \E b \in 1..Len(curated_beats) :
          curated_beats[b] = <<>> /\ beats_sentences[b] # <<>>

\* C9: concatenating the groups _apply_global_guard returns gives the list
\* _avoid_repetition returns for the concatenated input at the same n-gram
\* size, so no two sentences of the grouped output share an n-gram
C9_GroupedEqualsSequence ==
    GlobalDone =>
        /\ Concat(curated_beats) = _avoid_repetition(Concat(beats_sentences), ngram)
        /\ NoSharedNgram(Concat(curated_beats))

\* a finished run in which a sentence of the second group was rewritten and
\* another dropped because of the first group
C9_Witness ==
    /\ GlobalDone
    /\ Len(beats_sentences) = 2
    /\ beats_sentences[1] # <<>>
    /\ curated_beats[1] = beats_sentences[1]
    /\ Len(curated_beats[2]) < Len(beats_sentences[2])
    /\ curated_beats[2] # <<>>
    /\ curated_beats[2][1] \notin Range(beats_sentences[2])


(***************************************************************************)
(* Properties of story generation                                          *)
(***************************************************************************)
\* the configs that carry an explicit seed
ExplicitSeedConfigs == {c \in GenConfigs : c.seed # None}

\* C10: generating twice with the same configuration and an explicit seed
\* returns the same text and the same paragraphs, whatever was generated in
\* between: no configuration with an explicit seed ever has two different
\* results.
C10_Reproducible ==
    \A c \in ExplicitSeedConfigs : Cardinality(results[c]) <= 1


(***************************************************************************)
(* Properties of overlapping generations                                   *)
(***************************************************************************)
\* the candidate count the configuration's own length stands for
own_n_sent(config) == target_sentence_count([length |-> config.length])

\* C11: when generate_story calls overlap, in every interleaving each call
\* expands every beat with the candidate count of its own length and, where
\* it reads a seed, the seed of its own configuration: no call reads what the
\* other call wrote.
C11_CallsIndependent ==
    \A t \in Threads :
        \A k \in 1..Len(calls[t].reads) :
            LET r == calls[t].reads[k]
            IN  /\ r.n_sent = own_n_sent(calls[t].config)
                /\ r.seed # None => r.seed = Some(seed_or_zero(calls[t].config.seed))

(***************************************************************************)
(* Properties of one generation                                            *)
(***************************************************************************)
\* the beat names of a list of (name, sentences) pairs
BeatNames(beats) == [i \in 1..Len(beats) |-> beats[i][1]]

\* the enumeration the beats are to follow
CanonicalBeats ==
    <<"Hook", "Inciting Incident", "Debate", "Midpoint", "Bad Turn", "Climax", "Resolution">>

\* C12: for every configuration generate_story expands Hook, Inciting
\* Incident, Debate, Midpoint, Bad Turn, Climax, Resolution once each and in
\* that order, and the beat list it returns is this 7-element enumeration,
\* however many sentences the guards dropped.
C12_BeatsInCanonicalOrder ==
    /\ gen_pc = "beats" =>
          BeatNames(gen_beats) = SubSeq(CanonicalBeats, 1, Len(gen_beats))
    /\ \A c \in GenConfigs : \A m \in metas[c] : m.beats = CanonicalBeats

\* a returned story in which the guards emptied a whole beat
C12_Witness ==
    \E c \in GenConfigs :
        /\ metas[c] # {}
        /\ \E r \in results[c] : \E i \in 1..Len(r.paragraphs) : r.paragraphs[i] = <<>>

\* the distinct 4-grams of a token list over its 4-gram positions
FourGramRatio(tokens) ==
    IF Len(tokens) < 4 THEN Ratio(1, 1)
    ELSE Ratio(Cardinality({SubSeq(tokens, i, i + 3) : i \in 1..(Len(tokens) - 3)}),
               Len(tokens) - 3)

\* the 4-gram uniqueness ratio of a story text
TextRatio(text) == FourGramRatio(findall_words(lower(text)))

\* the advisory threshold of a configured length
AdvisoryThreshold(length) ==
    CASE length = "short"  -> Ratio(86, 100)
      [] length = "medium" -> Ratio(90, 100)
      [] length = "long"   -> Ratio(92, 100)

\* C13: a below-threshold uniqueness score never aborts generation:
\* generate_story returns the story text for every configuration, and
\* anti_repetition_passed is true exactly when the 4-gram uniqueness ratio of
\* the final text is >= the threshold of the configured length (short 0.86,
\* medium 0.90, long 0.92).  Stated of every call as it returns.
C13_FlagIsAdvisory ==
    [][\A c \in GenConfigs : \A m \in metas'[c] \ metas[c] :
          \E r \in results'[c] :
              /\ r.text # <<>>
              /\ ratio_eq(m.uniq4, TextRatio(r.text))
              /\ m.anti_repetition_passed <=>
                    ratio_ge(TextRatio(r.text), AdvisoryThreshold(c.length))]_vars

\* a story was returned although its ratio is below the threshold
C13_Witness ==
    \E c \in GenConfigs : \E m \in metas[c] :
        /\ ~m.anti_repetition_passed
        /\ \E r \in results[c] : r.text # <<>> /\ ratio_eq(m.uniq4, TextRatio(r.text))

\* the running call asked for the model-backed path and the pipeline fails
PipelineFails ==
    /\ gen_pc = "beats"
    /\ gen_config.enable_llm
    /\ TRANSFORMERS_AVAILABLE
    /\ ~pipeline_ok

\* what the handcrafted path makes of the k-th beat of the running call
HandcraftedBeat(k) ==
    {handcrafted_beat(base_prompt(BEAT_ORDER[k], gen_plan), gen_plan, gen_config.tone,
                      _rng(gen_config.seed, urandom), own_n_sent(gen_config)) :
        urandom \in UrandomValues}

\* C14: when external augmentation is enabled and the text-generation
\* pipeline fails at any step (construction, generation or post-processing),
\* expand_beat raises nothing and returns the result of the handcrafted
\* template path, so generate_story still returns a complete 7-beat story.
C14_SilentFallback ==
    [][PipelineFails =>
          /\ Len(gen_beats') = Len(gen_beats) + 1 =>
                /\ gen_beats'[Len(gen_beats')][1] = BEAT_ORDER[Len(gen_beats')]
                /\ gen_beats'[Len(gen_beats')][2] \in HandcraftedBeat(Len(gen_beats'))
          /\ gen_pc' = "idle" =>
                /\ \E r \in results'[gen_config] :
                      Len(r.paragraphs) = Len(BEAT_ORDER) /\ r.text # <<>>
                /\ \E m \in metas'[gen_config] : m.beats = BEAT_ORDER]_vars

\* a story returned by a call whose pipeline failed after random.seed ran
C14_Witness ==
    /\ TRANSFORMERS_AVAILABLE
    /\ ~pipeline_ok
    /\ global_random # None
    /\ \E c \in GenConfigs : c.enable_llm /\ results[c] # {}

(***************************************************************************)
(* Properties of single applications                                       *)
(***************************************************************************)
\* the beat names that have a base template in the table of expand_beat
HasBaseTemplate(beat_name) == \E i \in DOMAIN base_prompts : base_prompts[i][1] = beat_name

\* C15: a configuration error is fatal: expanding a beat whose name has no
\* base template in the beat-template table raises an error immediately and
\* produces no sentences for that beat.
C15_UnknownBeatRaises ==
    (f_name = "expand_beat" /\ f_ret # None /\ ~HasBaseTemplate(f_args.beat_name)) =>
        /\ f_ret[1].raised
        /\ f_ret[1].sentences = <<>>

\* the length the self-test asks a text to exceed
MinTextLength == 100

EmptyCollection(name) == IF name = "app._n_grams" THEN {} ELSE <<>>

\* C17: ngrams(tokens, n) returns the empty collection whenever n <= 0 or
\* len(tokens) < n, for every token sequence, in both _n_grams
\* implementations (the set of app.py, the list of bedtime_story_maker.py).
C17_NoGramsOutsideRange ==
    (/\ f_name \in {"app._n_grams", "bedtime_story_maker._n_grams"}
     /\ f_ret # None
     /\ (f_args.n <= 0 \/ Len(f_args.tokens) < f_args.n)) =>
        f_ret[1] = EmptyCollection(f_name)

\* C18: the uniqueness ratio of the empty token list is 1.0 for every n-gram
\* size n (positive, zero or negative) and every window, in both
\* _unique_ratio and _unique_ngram_ratio.
C18_EmptyListRatioIsOne ==
    (/\ f_name \in {"_unique_ratio", "_unique_ngram_ratio"}
     /\ f_ret # None
     /\ f_args.tokens = <<>>) =>
        ratio_eq(f_ret[1], Ratio(1, 1))

\* windows that take the whole of a token list as one chunk
WholeStreamWindows(tokens) == {w \in Windows : w >= Len(tokens) \/ w <= 0}

\* C19: for every token list t and n >= 1, _unique_ratio(t, n, w) has the
\* same value for every window w >= len(t), and that value is also the value
\* for every w <= 0 (the whole stream treated as one chunk).
C19_WindowInvariance ==
    (/\ f_name = "_unique_ratio"
     /\ f_ret # None
     /\ f_args.n >= 1
     /\ f_args.window \in WholeStreamWindows(f_args.tokens)) =>
        \A w \in WholeStreamWindows(f_args.tokens) :
            ratio_eq(f_ret[1], _unique_ratio(f_args.tokens, f_args.n, w))

\* a window below 1 applied to a list with a repeated n-gram
C19_Witness ==
    /\ f_name = "_unique_ratio"
    /\ f_ret # None
    /\ f_args.n = 2
    /\ f_args.window <= 0
    /\ f_args.tokens = <<"a", "b", "a", "b">>
    /\ ratio_eq(f_ret[1], Ratio(2, 3))
    /\ \E w \in WholeStreamWindows(f_args.tokens) : w > Len(f_args.tokens)

\* the chunk size a window stands for: the whole list for a window below 1
EffectiveWindow(tokens, window) == IF window <= 0 THEN Len(tokens) ELSE window

\* the consecutive chunks of at most w tokens
Chunks(tokens, w) ==
    [c \in 1..((Len(tokens) + w - 1) \div w) |->
        SubSeq(tokens, (c - 1) * w + 1, Min(c * w, Len(tokens)))]

\* the distinct n-grams inside a chunk
ChunkGrams(chunk, n) == {SubSeq(chunk, i, i + n - 1) : i \in 1..(Len(chunk) - n + 1)}

RECURSIVE SumOver(_, _)
\* the sum of the entries of a sequence of numbers
SumOver(numbers, k) == IF k = 0 THEN 0 ELSE numbers[k] + SumOver(numbers, k - 1)

\* the sum over the chunks of the distinct n-grams of each
DistinctInChunks(tokens, n, w) ==
    SumOver([c \in DOMAIN Chunks(tokens, w) |->
                Cardinality(ChunkGrams(Chunks(tokens, w)[c], n))],
            Len(Chunks(tokens, w)))

\* the sum over the chunks of max(0, len(chunk) - n + 1)
PositionsInChunks(tokens, n, w) ==
    SumOver([c \in DOMAIN Chunks(tokens, w) |-> Max(0, Len(Chunks(tokens, w)[c]) - n + 1)],
            Len(Chunks(tokens, w)))

\* C20: for non-empty tokens and n >= 1, _unique_ratio(tokens, n, window)
\* equals the sum over the consecutive window-sized chunks of the number of
\* distinct n-grams inside the chunk, divided by the sum over the chunks of
\* max(0, len(chunk)-n+1); n-grams never span a chunk boundary, chunks
\* shorter than n contribute to neither sum, the result is 1.0 when the
\* denominator is 0, and the numerator never exceeds the denominator.
C20_RatioOfSums ==
    (/\ f_name = "_unique_ratio"
     /\ f_ret # None
     /\ f_args.tokens # <<>>
     /\ f_args.n >= 1) =>
        LET w == EffectiveWindow(f_args.tokens, f_args.window)
        IN  /\ PositionsInChunks(f_args.tokens, f_args.n, w) = 0 =>
                  f_ret[1] = Ratio(1, 1)
            /\ PositionsInChunks(f_args.tokens, f_args.n, w) > 0 =>
                  f_ret[1] = Ratio(DistinctInChunks(f_args.tokens, f_args.n, w),
                                   PositionsInChunks(f_args.tokens, f_args.n, w))
            /\ f_ret[1].num <= f_ret[1].den

\* two chunks hold the same 2-gram, a third chunk is too short for one, and
\* the 2-gram across the boundary is not counted
C20_Witness ==
    /\ f_name = "_unique_ratio"
    /\ f_ret # None
    /\ f_args.tokens = <<"a", "b", "a", "b">>
    /\ f_args.n = 2
    /\ f_args.window = 2
    /\ f_ret[1] = Ratio(2, 2)

(***************************************************************************)
(* Properties of _sentence_variants                                        *)
(***************************************************************************)
\* pat occurs in s
Occurs(s, pat) ==
    \E i \in 1..(Len(s) - Len(pat) + 1) : SubSeq(s, i, i + Len(pat) - 1) = pat

\* C21: for every sentence, _sentence_variants returns a list whose first
\* entry is the sentence itself, whose second entry is the and-rewrite (no
\* "and" is left, and putting "and" back for "&" gives the sentence), whose
\* third entry is the comma-rewrite (likewise for "," and the em-dash), and
\* which has a fourth entry, the sentence without its final character,
\* exactly when the sentence ends with '.'; the list has 3 or 4 entries and
\* is the same on every call.
C21_VariantListShape ==
    f_name = "_sentence_variants" =>
        \A k \in 1..Len(f_ret) :
            LET v    == f_ret[k]
                base == f_args.base
            IN  /\ Len(v) \in {3, 4}
                /\ v[1] = base
                /\ ~Occurs(v[2], <<"a","n","d">>)
                /\ replace(v[2], <<"&">>, <<"a","n","d">>) = base
                /\ ~Occurs(v[3], <<",">>)
                /\ replace(v[3], <<EM_DASH>>, <<",">>) = base
                /\ Len(v) = 4 <=> (base # <<>> /\ base[Len(base)] = ".")
                /\ Len(v) = 4 => v[4] = SubSeq(base, 1, Len(base) - 1)
                /\ v = f_ret[1]

\* two calls on a sentence ending with '.' that holds "and" and ","
C21_Witness ==
    /\ f_name = "_sentence_variants"
    /\ Len(f_ret) = 2
    /\ f_args.base = <<"a","n","d",",",".">>
    /\ Len(f_ret[2]) = 4

\* the letters of a word
IsLetter(c) == \E i \in DOMAIN LOWER : LOWER[i] = c \/ UPPER[i] = c

\* the word "and" stands at position i of s
WordAndAt(s, i) ==
    /\ i + 2 <= Len(s)
    /\ SubSeq(s, i, i + 2) = <<"a","n","d">>
    /\ (i = 1 \/ ~IsLetter(s[i - 1]))
    /\ (i + 2 = Len(s) \/ ~IsLetter(s[i + 3]))

\* s with "&" for its first word "and"
FirstAndRewritten(s) ==
    IF \E i \in 1..Len(s) : WordAndAt(s, i)
    THEN LET i == CHOOSE i \in 1..Len(s) :
                     WordAndAt(s, i) /\ \A j \in 1..(i - 1) : ~WordAndAt(s, j)
         IN  SubSeq(s, 1, i - 1) \o <<"&">> \o SubSeq(s, i + 3, Len(s))
    ELSE s

\* s with an em-dash for its first ","
FirstCommaRewritten(s) ==
    IF \E i \in 1..Len(s) : s[i] = ","
    THEN LET i == CHOOSE i \in 1..Len(s) : s[i] = "," /\ \A j \in 1..(i - 1) : s[j] # ","
         IN  SubSeq(s, 1, i - 1) \o <<EM_DASH>> \o SubSeq(s, i + 1, Len(s))
    ELSE s

\* C22: each rewrite of _sentence_variants changes only the first
\* occurrence: the and-variant replaces only the first occurrence of the word
\* "and" (not later occurrences and not the letters 'and' inside another
\* word) by "&", and the comma-variant replaces only the first "," by an
\* em-dash, leaving the rest of the sentence identical to the original.
C22_FirstOccurrenceOnly ==
    (f_name = "_sentence_variants" /\ f_ret # <<>>) =>
        /\ f_ret[1][2] = FirstAndRewritten(f_args.base)
        /\ f_ret[1][3] = FirstCommaRewritten(f_args.base)

\* the candidate count of a configured length
CandidateCount(length) ==
    CASE length = "short"  -> 3
      [] length = "medium" -> 5
      [] length = "long"   -> 7

\* the application took the handcrafted path with a length in the cache
HandcraftedApplication ==
    /\ f_name = "expand_beat"
    /\ f_ret # None
    /\ ~(f_args.use_llm /\ TRANSFORMERS_AVAILABLE /\ pipeline_ok)
    /\ "length" \in DOMAIN plan_length_cache

\* the list the handcrafted path of the application hands to its guard
BeatCandidates ==
    handcrafted_candidates(base_prompt(f_args.beat_name, f_args.plan), f_args.plan,
                           f_args.tone, f_args.rng, target_sentence_count(plan_length_cache))

\* C23: on the handcrafted path expand_beat builds exactly 3, 5 or 7
\* candidate sentences for length short, medium or long (the first being the
\* styled base template of the beat) before applying the local guard at
\* n-gram size 4, so every beat's locally filtered list has between 1 and
\* that many sentences and begins with the styled anchor sentence.
C23_CandidateCount ==
    HandcraftedApplication =>
        /\ Len(BeatCandidates) = CandidateCount(plan_length_cache.length)
        /\ f_ret[1].sentences = _avoid_repetition(BeatCandidates, 4)
        /\ Len(f_ret[1].sentences) \in 1..CandidateCount(plan_length_cache.length)
        /\ f_ret[1].sentences[1] = BeatCandidates[1]

\* a long beat whose guard dropped a candidate
C23_Witness ==
    /\ HandcraftedApplication
    /\ plan_length_cache.length = "long"
    /\ Len(f_ret[1].sentences) < Len(BeatCandidates)

RECURSIVE JoinedWith(_, _, _)
\* the first k strings of a list with sep between neighbours
JoinedWith(strings, sep, k) ==
    IF k = 0 THEN <<>>
    ELSE IF k = 1 THEN strings[1]
    ELSE JoinedWith(strings, sep, k - 1) \o sep \o strings[k]

\* r is the story assembled from the guarded beats
AssembledFrom(r, guarded) ==
    /\ Len(r.paragraphs) = Len(BEAT_ORDER)
    /\ \A i \in 1..Len(BEAT_ORDER) :
          r.paragraphs[i] = JoinedWith(guarded[i], <<" ">>, Len(guarded[i]))
    /\ r.text = JoinedWith(r.paragraphs, <<"\n", "\n">>, Len(r.paragraphs))

\* C24: the returned story is assembled from the globally guarded beats
\* only: paragraphs has exactly one entry per beat in beat order, the i-th
\* paragraph is the i-th guarded beat's surviving sentences joined by single
\* spaces (the empty string if none survived), and text is the paragraphs
\* joined by a blank line.  Stated of every call as it returns.
C24_AssembledFromGuardedBeats ==
    [][(gen_pc = "beats" /\ gen_pc' = "idle") =>
          \E guarded \in {_apply_global_guard(
                               [i \in 1..Len(gen_beats) |-> gen_beats[i][2]], 4)} :
              \E r \in results'[gen_config] : AssembledFrom(r, guarded)]_vars

\* a returned story whose last beat lost every sentence to the global guard
C24_Witness ==
    \E c \in GenConfigs : \E r \in results[c] :
        /\ Len(r.paragraphs) = Len(BEAT_ORDER)
        /\ r.paragraphs[Len(BEAT_ORDER)] = <<>>
        /\ r.paragraphs[1] # <<>>
        /\ r.text # <<>>

(***************************************************************************)
(* Properties of main.generate_story                                       *)
(***************************************************************************)
\* the segment templates of the returned paragraphs, in paragraph order
ReturnedSegments ==
    LET segs == SelectSeq(f_ret[1], LAMBDA p : p.kind = "segment")
    IN  [k \in 1..Len(segs) |-> segs[k].template]

\* C25: in main.generate_story, whenever the number of middle segments
\* needed (target paragraphs minus 2) is at most the number of segment
\* templates, the chosen segments use pairwise distinct templates and
\* appear in ascending template order; segments may repeat only when more
\* segments are needed than templates exist.
C25_DistinctAscendingSegments ==
    (/\ f_name = "main.generate_story"
     /\ f_ret # None
     /\ target_paras(f_args.length) - 2 <= f_args.segments) =>
        /\ Len(ReturnedSegments) = target_paras(f_args.length) - 2
        /\ \A i, j \in 1..Len(ReturnedSegments) :
              i < j => ReturnedSegments[i] < ReturnedSegments[j]

\* a medium story of five segments picked from eight templates, the first skipped
C25_Witness ==
    /\ f_name = "main.generate_story"
    /\ f_ret # None
    /\ f_args.length = "Medium"
    /\ f_args.segments = 8
    /\ Len(ReturnedSegments) = 5
    /\ ReturnedSegments[1] > 0

\* s ends with '.', '!' or '?'
EndsWithTerminal(s) == s # <<>> /\ s[Len(s)] \in {".", "!", "?"}

\* C26: every sentence in every paragraph returned by app.generate_story
\* ends with terminal punctuation ('.', '!' or '?'): the terminal
\* punctuation ensured by the style pass is still present after the local
\* and the global repetition guard.  Stated of the sentences the paragraphs
\* of a call are joined from, as the call returns.
C26_SentencesKeepPunctuation ==
    [][(gen_pc = "beats" /\ gen_pc' = "idle") =>
          \E guarded \in {_apply_global_guard(
                               [i \in 1..Len(gen_beats) |-> gen_beats[i][2]], 4)} :
              \A i \in 1..Len(guarded) : \A k \in 1..Len(guarded[i]) :
                  EndsWithTerminal(guarded[i][k])]_vars

\* C27: in generate_story the global guard leaves the first beat (Hook)
\* exactly as the local guard produced it: the local and the global pass use
\* the same n-gram size 4 and the same tokenization, so the first output
\* group of _apply_global_guard equals the first beat's locally filtered
\* sentence list, and the Hook paragraph is never empty.  Stated of every
\* call as it returns.
C27_HookUntouched ==
    [][(gen_pc = "beats" /\ gen_pc' = "idle") =>
          /\ gen_beats[1][1] = "Hook"
          /\ gen_beats[1][2] # <<>>
          /\ \E guarded \in {_apply_global_guard(
                                  [i \in 1..Len(gen_beats) |-> gen_beats[i][2]], 4)} :
                guarded[1] = gen_beats[1][2]
          /\ \E r \in results'[gen_config] :
                /\ r.paragraphs[1] # <<>>
                /\ r.paragraphs[1] =
                      JoinedWith(gen_beats[1][2], <<" ">>, Len(gen_beats[1][2]))]_vars

\* a returned medium story that kept its Hook while the guard across beats
\* emptied its last beat
C27_Witness ==
    \E c \in GenConfigs : \E r \in results[c] :
        /\ c.length = "medium"
        /\ r.paragraphs[1] # <<>>
        /\ r.paragraphs[Len(r.paragraphs)] = <<>>

(***************************************************************************)
(* Properties of the desktop App                                           *)
(***************************************************************************)
\* C28: in the desktop batch worker, once Cancel has been requested while a
\* worker is iterating over its seeds, that worker starts no further
\* generate call, in every interleaving with other user actions (including
\* starting another Generate or Batch run while the first worker is still
\* running).
C28_CancelStopsWorker ==
    [][\A w \in Workers :
          workers[w].cancelled =>
              ~(workers[w].pc = "loop" /\ workers'[w].pc = "generating")]_vars

\* C29: starting from a library whose stories have pairwise distinct ids,
\* after any sequence of add_story, delete_story and undo_delete no two
\* stored stories have the same id; add_story with an existing id replaces
\* that entry in place, otherwise it inserts at the front.
C29_IdsStayUnique ==
    /\ distinct_ids(stories)
    /\ (lib_op # None /\ lib_op[1].name = "add_story") =>
          LET before == lib_op[1].before
              sid    == lib_op[1].arg
          IN  IF sid \in story_ids(before)
              THEN /\ Len(stories) = Len(before)
                   /\ \A i \in 1..Len(before) :
                         IF before[i].id = sid
                         THEN stories[i].id = sid
                         ELSE stories[i] = before[i]
              ELSE /\ stories[1].id = sid
                   /\ Tail(stories) = before

\* an undo has just put a deleted story back beside a newer story, and an
\* add_story with a stored id has replaced an entry that is not the first
C29_Witness ==
    /\ lib_op # None
    /\ lib_op[1].name = "add_story"
    /\ lib_op[1].prev.name = "undo_delete"
    /\ lib_op[1].prev.ret = "True"
    /\ Len(lib_op[1].before) = MaxStories
    /\ lib_op[1].arg = lib_op[1].before[2].id
    /\ stories # lib_op[1].before

\* C30: delete_story(sid) for a stored id immediately followed by
\* undo_delete() leaves exactly the set of stories held before the delete and
\* clears the pending undo, so a second undo_delete returns False and changes
\* nothing; delete_story for an id that is not stored returns False and
\* leaves the stories and the pending undo unchanged.
C30_DeleteUndoRoundTrip ==
    [][/\ (/\ lib_op # None
           /\ lib_op[1].name = "delete_story"
           /\ lib_op[1].ret = "True"
           /\ lib_op'[1].name = "undo_delete") =>
              /\ lib_op'[1].ret = "True"
              /\ story_set(stories') = story_set(lib_op[1].before)
              /\ Len(stories') = Len(lib_op[1].before)
              /\ last_deleted' = None
       /\ (/\ lib_op # None
           /\ lib_op[1].name = "undo_delete"
           /\ lib_op[1].ret = "True"
           /\ lib_op'[1].name = "undo_delete") =>
              /\ lib_op'[1].ret = "False"
              /\ stories' = stories
              /\ last_deleted' = last_deleted
       /\ (/\ lib_op'[1].name = "delete_story"
           /\ lib_op'[1].arg \notin story_ids(stories)) =>
              /\ lib_op'[1].ret = "False"
              /\ stories' = stories
              /\ last_deleted' = last_deleted]_vars

\* a story that was not first has been deleted and brought back by the undo
\* that followed at once: the same stories in another order, nothing pending
C30_Witness ==
    /\ lib_op # None
    /\ lib_op[1].name = "undo_delete"
    /\ lib_op[1].ret = "True"
    /\ lib_op[1].prev = [name |-> "delete_story", ret |-> "True"]
    /\ Len(stories) = MaxStories
    /\ Len(lib_op[1].before) = MaxStories - 1
    /\ Tail(stories) = lib_op[1].before
    /\ last_deleted = None

====
